---- MODULE Spec2Model ----
(***************************************************************************)
(* Usage-normalisation and pace-projection logic of ai-usage               *)
(* (src/dist/utils/formatters.js, src/src/utils/formatters.ts,             *)
(* src/src/providers/antigravity.ts, src/dist/index.js).                   *)
(*                                                                         *)
(* Numbers.  A JavaScript number is modelled as an exact fraction          *)
(* [n, d] with d >= 0; d = 0 encodes what a division by zero produces      *)
(* (n > 0: Infinity, n < 0: -Infinity, n = 0: NaN).  Binary rounding of    *)
(* doubles is not modelled.                                                *)
(*                                                                         *)
(* Time.  Date.getTime() is counted in ticks of 100 ms, so that a month    *)
(* fits TLC's integers; the source's millisecond constants are divided     *)
(* accordingly (TicksPerSecond).                                           *)
(***************************************************************************)
EXTENDS Integers, Sequences, FiniteSets, TLC

VARIABLES
    now,     \* the wall clock, Date.now()
    window,  \* the optional UsageWindow the functions are applied to
    op,      \* the function applied last
    out,     \* the string it returned
    color,   \* the colour name getPaceColor returned for out
    row,     \* the cells formatProviderRow returned
    arg,     \* the optional argument of the last call that takes no window:
             \* a duration, a date string, a timestamp or a ProviderUsage
    parsed,  \* the optional Date a parser returned
    pc,      \* where main() stands
    argv,    \* the flags parseArgs reads from the command line
    auth,    \* the optional AuthConfig loadAuthConfig finds
    accountsFile,  \* the optional content of antigravity-accounts.json
    upstream,      \* per provider, what the outside answered its adapter
    promise,       \* per provider, the promise fetchUsage returned
    table,   \* the rows pushed to the table
    calls,   \* per result of the row loop, the formatters called for it
    exitCode,  \* the optional exit code of the process
    running, \* the formatter that was called and has not returned, or ""
    reads    \* the readings of the wall clock the last such call made

vars == <<now, window, op, out, color, row, arg, parsed,
          pc, argv, auth, accountsFile, upstream, promise, table, calls,
          exitCode, running, reads>>

\* the state of a formatter call that is observed step by step
callVars == <<running, reads>>

\* the state of a run of main()
mainVars ==
    <<pc, argv, auth, accountsFile, upstream, promise, table, calls, exitCode>>

-----------------------------------------------------------------------------
(* Optional values: undefined is the empty sequence, a present value v is  *)
(* <<v>>.                                                                  *)
undefined == <<>>
Some(v) == <<v>>
\* null has no properties either: reading one throws a TypeError
null == <<>>
IsDefined(o) == o # <<>>
Val(o) == o[1]

-----------------------------------------------------------------------------
(* JavaScript numbers as exact fractions.                                  *)
RECURSIVE GCD(_, _)
GCD(a, b) == IF b = 0 THEN a ELSE GCD(b, a % b)

AbsInt(x) == IF x < 0 THEN -x ELSE x

Norm(n, d) ==
    LET g == GCD(AbsInt(n), AbsInt(d))
        s == IF d < 0 THEN -1 ELSE 1
    IN  IF g = 0 THEN [n |-> 0, d |-> 0]
        ELSE [n |-> (s * n) \div g, d |-> (s * d) \div g]

Num(x) == [n |-> x, d |-> 1]
Frac(x, y) == Norm(x, y)

IsNaN(a) == a.n = 0 /\ a.d = 0
IsFinite(a) == a.d # 0

NumSub(a, b) == Norm(a.n * b.d - b.n * a.d, a.d * b.d)
NumMul(a, b) == Norm(a.n * b.n, a.d * b.d)
NumDiv(a, b) == Norm(a.n * b.d, a.d * b.n)
NumAbs(a) == [n |-> AbsInt(a.n), d |-> a.d]

\* a < b; every comparison with NaN is false
NumLess(a, b) ==
    /\ ~IsNaN(a)
    /\ ~IsNaN(b)
    /\ IF a.d = 0 /\ b.d = 0 THEN a.n < b.n ELSE a.n * b.d < b.n * a.d

NumEq(a, b) == ~IsNaN(a) /\ ~IsNaN(b) /\ a = b
NumLeq(a, b) == NumLess(a, b) \/ NumEq(a, b)

\* Number.prototype.toFixed(1): the nearest tenth, a tie going to the larger
\* magnitude; the sign is printed from the number, not from the rounded value
toFixed1(a) ==
    IF IsNaN(a) THEN "NaN"
    ELSE IF a.d = 0 THEN (IF a.n < 0 THEN "-Infinity" ELSE "Infinity")
    ELSE LET m == AbsInt(a.n)
             t == (2 * 10 * m + a.d) \div (2 * a.d)
         IN  (IF a.n < 0 THEN "-" ELSE "")
                 \o ToString(t \div 10) \o "." \o ToString(t % 10)

\* String.prototype.includes
includes(s, needle) ==
    \E i \in 1..(Len(s) - Len(needle) + 1) :
        SubSeq(s, i, i + Len(needle) - 1) = needle

-----------------------------------------------------------------------------
(* Time, in ticks of 100 ms.                                               *)
TicksPerSecond == 10
Seconds(s) == s * TicksPerSecond
Hours(h) == Seconds(h * 60 * 60)


-----------------------------------------------------------------------------
(* A UsageWindow is a record                                               *)
(*   [used, limit, remaining, utilization : number,                        *)
(*    resetAt : optional instant,                                          *)
(*    minUtilization, maxUtilization : optional number].                   *)
(* A parameter "w" below is an optional window.                            *)

\* Faulty variant: the guard is ms < 0, so a delta of 0 is decomposed
formatDuration_strictNow(ms) ==
    IF ms < 0 THEN "now"
    ELSE LET seconds == ms \div TicksPerSecond
             minutes == seconds \div 60
             hours == minutes \div 60
             days == hours \div 24
         IN  IF days > 0
             THEN ToString(days) \o "d " \o ToString(hours % 24) \o "h "
                      \o ToString(minutes % 60) \o "m"
             ELSE IF hours > 0
             THEN ToString(hours) \o "h " \o ToString(minutes % 60) \o "m"
             ELSE ToString(minutes) \o "m"

\* Faulty variant: the hours are printed as a total, not as the remainder
\* within the day
formatDuration_totalHours(ms) ==
    IF ms <= 0 THEN "now"
    ELSE LET seconds == ms \div TicksPerSecond
             minutes == seconds \div 60
             hours == minutes \div 60
             days == hours \div 24
         IN  IF days > 0
             THEN ToString(days) \o "d " \o ToString(hours) \o "h "
                      \o ToString(minutes % 60) \o "m"
             ELSE IF hours > 0
             THEN ToString(hours) \o "h " \o ToString(minutes % 60) \o "m"
             ELSE ToString(minutes) \o "m"

formatDuration(ms) ==
    IF ms <= 0 THEN "now"
    ELSE LET seconds == ms \div TicksPerSecond
             minutes == seconds \div 60
             hours == minutes \div 60
             days == hours \div 24
         IN  IF days > 0
             THEN ToString(days) \o "d " \o ToString(hours % 24) \o "h "
                      \o ToString(minutes % 60) \o "m"
             ELSE IF hours > 0
             THEN ToString(hours) \o "h " \o ToString(minutes % 60) \o "m"
             ELSE ToString(minutes) \o "m"

\* Faulty variant: the range is ignored and utilization printed
formatWindow_utilizationOnly(w, t) ==
    IF ~IsDefined(w) THEN "N/A"
    ELSE LET win == Val(w)
             resetText ==
                 IF IsDefined(win.resetAt)
                 THEN formatDuration(Val(win.resetAt) - t)
                 ELSE "N/A"
         IN  toFixed1(win.utilization) \o "% (" \o resetText \o ")"

\* Faulty variant: the subtraction is turned round, now - resetAt
formatWindow_elapsedSinceReset(w, t) ==
    IF ~IsDefined(w) THEN "N/A"
    ELSE LET win == Val(w)
             hasRange == IsDefined(win.minUtilization)
                             /\ IsDefined(win.maxUtilization)
             min == toFixed1(Val(win.minUtilization))
             max == toFixed1(Val(win.maxUtilization))
             percentageText ==
                 IF hasRange
                 THEN (IF min = max THEN min \o "%"
                                    ELSE min \o "%-" \o max \o "%")
                 ELSE toFixed1(win.utilization) \o "%"
             resetText ==
                 IF IsDefined(win.resetAt)
                 THEN formatDuration(t - Val(win.resetAt))
                 ELSE "N/A"
         IN  percentageText \o " (" \o resetText \o ")"

\* src/dist/utils/formatters.js; t is the value Date.now() returns
formatWindow(w, t) ==
    IF ~IsDefined(w) THEN "N/A"
    ELSE LET win == Val(w)
             hasRange == IsDefined(win.minUtilization)
                             /\ IsDefined(win.maxUtilization)
             min == toFixed1(Val(win.minUtilization))
             max == toFixed1(Val(win.maxUtilization))
             percentageText ==
                 IF hasRange
                 THEN (IF min = max THEN min \o "%"
                                    ELSE min \o "%-" \o max \o "%")
                 ELSE toFixed1(win.utilization) \o "%"
             resetText ==
                 IF IsDefined(win.resetAt)
                 THEN formatDuration(Val(win.resetAt) - t)
                 ELSE "N/A"
         IN  percentageText \o " (" \o resetText \o ")"

\* What a call leaves when it raises instead of returning
Raised == "<raised>"

\* Faulty variant: the guard for the absent window is missing, and reading
\* window.utilization raises a TypeError
formatWindowTs_noAbsentGuard(w, t) ==
    IF ~IsDefined(w) THEN Raised
    ELSE LET win == Val(w)
             percentage == toFixed1(win.utilization)
             resetText ==
                 IF IsDefined(win.resetAt)
                 THEN formatDuration(Val(win.resetAt) - t)
                 ELSE "N/A"
         IN  percentage \o "% (" \o resetText \o ")"

\* src/src/utils/formatters.ts: the earlier formatter, without the range
formatWindowTs(w, t) ==
    IF ~IsDefined(w) THEN "N/A"
    ELSE LET win == Val(w)
             percentage == toFixed1(win.utilization)
             resetText ==
                 IF IsDefined(win.resetAt)
                 THEN formatDuration(Val(win.resetAt) - t)
                 ELSE "N/A"
         IN  percentage \o "% (" \o resetText \o ")"

-----------------------------------------------------------------------------
(* Pace calculators.                                                       *)
totalWeekMs == 7 * 24 * 60 * 60 * TicksPerSecond
totalFiveHourMs == 5 * 60 * 60 * TicksPerSecond
totalMonthMs == 30 * 24 * 60 * 60 * TicksPerSecond

\* The glyphs of the verdicts, spelled in ASCII: U+2713, U+2191, U+2193
CheckMark == "<check>"
UpArrow == "<up>"
DownArrow == "<down>"

\* Faulty variants of the weekly / five-hour calculator, one slip each:
\*   "inclusiveBand"  the dead-band test is <= 5
\*   "signedBehind"   the behind branch prints diffPercentage without Math.abs
\*   "noLimitGuard"   the limit === 0 guard is missing
\*   "utilReadout"    the static readout prints the utilization field
\*   "strictReset"    the just-reset test is timeElapsed < 0
faultyPace(w, t, cycleMs, fault) ==
    IF ~IsDefined(w) \/ (fault # "noLimitGuard" /\ NumEq(Val(w).limit, Num(0)))
    THEN "N/A"
    ELSE LET win == Val(w)
             resetAt == win.resetAt
         IN  IF ~IsDefined(resetAt)
             THEN LET percentage ==
                          IF fault = "utilReadout" THEN win.utilization
                          ELSE NumMul(NumDiv(win.used, win.limit), Num(100))
                  IN  toFixed1(percentage) \o "% used"
             ELSE LET timeUntilReset == Val(resetAt) - t
                      timeElapsed == cycleMs - timeUntilReset
                      expectedUsage ==
                          NumMul(Frac(timeElapsed, cycleMs), win.limit)
                      diff == NumSub(win.used, expectedUsage)
                      diffPercentage ==
                          NumMul(NumDiv(diff, win.limit), Num(100))
                      inBand ==
                          IF fault = "inclusiveBand"
                          THEN NumLeq(NumAbs(diffPercentage), Num(5))
                          ELSE NumLess(NumAbs(diffPercentage), Num(5))
                      justReset ==
                          IF fault = "strictReset" THEN timeElapsed < 0
                          ELSE timeElapsed <= 0
                  IN  IF justReset THEN "0% (just reset)"
                      ELSE IF inBand THEN CheckMark \o " on track"
                      ELSE IF NumLess(Num(0), diff)
                      THEN UpArrow \o " " \o toFixed1(diffPercentage)
                               \o "% ahead"
                      ELSE DownArrow \o " "
                               \o toFixed1(IF fault = "signedBehind"
                                           THEN diffPercentage
                                           ELSE NumAbs(diffPercentage))
                               \o "% behind"

calculatePace_inclusiveBand(w, t) ==
    faultyPace(w, t, totalWeekMs, "inclusiveBand")

calculatePace_signedBehind(w, t) ==
    faultyPace(w, t, totalWeekMs, "signedBehind")

calculatePace_noLimitGuard(w, t) ==
    faultyPace(w, t, totalWeekMs, "noLimitGuard")

calculatePace_utilReadout(w, t) ==
    faultyPace(w, t, totalWeekMs, "utilReadout")

calculatePace_strictReset(w, t) ==
    faultyPace(w, t, totalWeekMs, "strictReset")

\* the five-hour calculator left on the weekly cycle length
calculateFiveHourPace_weekCycle(w, t) ==
    faultyPace(w, t, totalWeekMs, "none")

calculatePace(w, t) ==
    IF ~IsDefined(w) \/ NumEq(Val(w).limit, Num(0)) THEN "N/A"
    ELSE LET weeklyWindow == Val(w)
             resetAt == weeklyWindow.resetAt
         IN  IF ~IsDefined(resetAt)
             THEN LET percentage ==
                          NumMul(NumDiv(weeklyWindow.used, weeklyWindow.limit),
                                 Num(100))
                  IN  toFixed1(percentage) \o "% used"
             ELSE LET timeUntilReset == Val(resetAt) - t
                      timeElapsed == totalWeekMs - timeUntilReset
                      expectedUsage ==
                          NumMul(Frac(timeElapsed, totalWeekMs),
                                 weeklyWindow.limit)
                      diff == NumSub(weeklyWindow.used, expectedUsage)
                      diffPercentage ==
                          NumMul(NumDiv(diff, weeklyWindow.limit), Num(100))
                  IN  IF timeElapsed <= 0 THEN "0% (just reset)"
                      ELSE IF NumLess(NumAbs(diffPercentage), Num(5))
                      THEN CheckMark \o " on track"
                      ELSE IF NumLess(Num(0), diff)
                      THEN UpArrow \o " " \o toFixed1(diffPercentage)
                               \o "% ahead"
                      ELSE DownArrow \o " "
                               \o toFixed1(NumAbs(diffPercentage))
                               \o "% behind"

calculateFiveHourPace(w, t) ==
    IF ~IsDefined(w) \/ NumEq(Val(w).limit, Num(0)) THEN "N/A"
    ELSE LET fiveHourWindow == Val(w)
             resetAt == fiveHourWindow.resetAt
         IN  IF ~IsDefined(resetAt)
             THEN LET percentage ==
                          NumMul(NumDiv(fiveHourWindow.used,
                                        fiveHourWindow.limit), Num(100))
                  IN  toFixed1(percentage) \o "% used"
             ELSE LET timeUntilReset == Val(resetAt) - t
                      timeElapsed == totalFiveHourMs - timeUntilReset
                      expectedUsage ==
                          NumMul(Frac(timeElapsed, totalFiveHourMs),
                                 fiveHourWindow.limit)
                      diff == NumSub(fiveHourWindow.used, expectedUsage)
                      diffPercentage ==
                          NumMul(NumDiv(diff, fiveHourWindow.limit), Num(100))
                  IN  IF timeElapsed <= 0 THEN "0% (just reset)"
                      ELSE IF NumLess(NumAbs(diffPercentage), Num(5))
                      THEN CheckMark \o " on track"
                      ELSE IF NumLess(Num(0), diff)
                      THEN UpArrow \o " " \o toFixed1(diffPercentage)
                               \o "% ahead"
                      ELSE DownArrow \o " "
                               \o toFixed1(NumAbs(diffPercentage))
                               \o "% behind"


\* The calendar behind new Date(year, month, 1, 12, 0, 0): tick 0 is local
\* midnight on 1 January of a common year, and the model's instants lie in
\* its first three months.
DaysInMonth == <<31, 28, 31>>

RECURSIVE monthStart(_)
monthStart(k) ==
    IF k = 1 THEN 0 ELSE monthStart(k - 1) + Hours(24 * DaysInMonth[k - 1])

startOfMonth(t) ==
    LET k == CHOOSE m \in 1..Len(DaysInMonth) :
                 /\ monthStart(m) <= t
                 /\ t < monthStart(m) + Hours(24 * DaysInMonth[m])
    IN  monthStart(k) + Hours(12)

\* elapsedMs / totalMonthMs of src/dist/utils/formatters.js: the share of the
\* month, counted from noon on the 1st to resetAt, that has gone by at t
elapsedFraction(resetAtMs, t) ==
    LET nowMs == t
        monthSpanMs == resetAtMs - startOfMonth(t)
        elapsedMs == nowMs - startOfMonth(t)
    IN  Frac(elapsedMs, monthSpanMs)

\* src/dist/utils/formatters.js: the monthly calculator the row renderer calls
calculateMonthlyPace(w, t) ==
    IF ~IsDefined(w) \/ NumEq(Val(w).limit, Num(0)) THEN "mcp: N/A"
    ELSE LET monthlyWindow == Val(w)
             resetAt == monthlyWindow.resetAt
             usagePercentage == monthlyWindow.utilization
         IN  IF ~IsDefined(resetAt)
             THEN "mcp: " \o toFixed1(usagePercentage) \o "%"
             ELSE LET elapsedPercentage ==
                          NumMul(elapsedFraction(Val(resetAt), t), Num(100))
                      diff == NumSub(usagePercentage, elapsedPercentage)
                  IN  IF NumLess(NumAbs(diff), Num(5))
                      THEN "mcp: " \o CheckMark \o " on track"
                      ELSE IF NumLeq(diff, Num(0))
                      THEN "mcp: " \o DownArrow \o " behind"
                      ELSE "mcp: " \o UpArrow \o " ahead"

\* Math.max(0, Math.min(timeElapsed, totalMonthMs))
clamp(x, lo, hi) ==
    LET m == IF x < hi THEN x ELSE hi
    IN  IF lo < m THEN m ELSE lo

\* clampedTimeElapsed / totalMonthMs of src/src/providers/antigravity.ts
clampedFraction(resetAtMs, t) ==
    LET timeUntilReset == resetAtMs - t
        timeElapsed == totalMonthMs - timeUntilReset
        clampedTimeElapsed == clamp(timeElapsed, 0, totalMonthMs)
    IN  Frac(clampedTimeElapsed, totalMonthMs)

\* src/src/providers/antigravity.ts: the monthly calculator on a 30-day cycle
calculateMonthlyPaceTs(w, t) ==
    IF ~IsDefined(w) \/ NumEq(Val(w).limit, Num(0)) THEN "N/A"
    ELSE LET monthlyWindow == Val(w)
             resetAt == monthlyWindow.resetAt
         IN  IF ~IsDefined(resetAt)
             THEN LET percentage ==
                          NumMul(NumDiv(monthlyWindow.used,
                                        monthlyWindow.limit), Num(100))
                  IN  "mcp: " \o toFixed1(percentage) \o "% used"
             ELSE LET timeUntilReset == Val(resetAt) - t
                      timeElapsed == totalMonthMs - timeUntilReset
                      clampedTimeElapsed == clamp(timeElapsed, 0, totalMonthMs)
                      expectedUsage ==
                          NumMul(clampedFraction(Val(resetAt), t),
                                 monthlyWindow.limit)
                      actualUsage == monthlyWindow.used
                      diff == NumSub(actualUsage, expectedUsage)
                      diffPercentage ==
                          NumMul(NumDiv(diff, monthlyWindow.limit), Num(100))
                  IN  IF timeUntilReset <= 0 THEN "mcp: 0% (just reset)"
                      ELSE IF clampedTimeElapsed <= 0
                      THEN "mcp: 0% (just reset)"
                      ELSE IF NumLess(NumAbs(diffPercentage), Num(5))
                      THEN "mcp: " \o CheckMark \o " on track"
                      ELSE IF NumLess(Num(0), diff)
                      THEN "mcp: " \o UpArrow \o " "
                               \o toFixed1(diffPercentage) \o "% ahead"
                      ELSE "mcp: " \o DownArrow \o " "
                               \o toFixed1(NumAbs(diffPercentage))
                               \o "% behind"

-----------------------------------------------------------------------------
(* Colour of a pace string.                                                *)
\* Faulty variant: "ahead" is taken for the favourable verdict
getPaceColor_aheadGreen(pace) ==
    IF pace = "N/A" \/ includes(pace, "N/A") THEN "gray"
    ELSE IF includes(pace, CheckMark) \/ includes(pace, "on track")
    THEN "green"
    ELSE IF includes(pace, UpArrow) \/ includes(pace, "ahead") THEN "green"
    ELSE IF includes(pace, DownArrow) \/ includes(pace, "behind")
    THEN "red"
    ELSE "white"

\* src/dist/utils/formatters.js
getPaceColor(pace) ==
    IF pace = "N/A" \/ includes(pace, "N/A") THEN "gray"
    ELSE IF includes(pace, CheckMark) \/ includes(pace, "on track")
    THEN "green"
    ELSE IF includes(pace, UpArrow) \/ includes(pace, "ahead") THEN "red"
    ELSE IF includes(pace, DownArrow) \/ includes(pace, "behind")
    THEN "green"
    ELSE "white"

\* src/src/utils/formatters.ts
getPaceColorTs(pace) ==
    IF includes(pace, CheckMark) THEN "green"
    ELSE IF includes(pace, UpArrow) THEN "red"
    ELSE IF includes(pace, DownArrow) THEN "green"
    ELSE "white"

-----------------------------------------------------------------------------
(* Timestamp parsers.  A Date object is modelled by its time value, a      *)
(* number of ticks that is NaN for an Invalid Date.  Tick 0 is             *)
(* 2023-01-01T00:00:00 and local time is UTC.  The finite numbers of the   *)
(* model all lie within the range of Date (8.64e15 ms either side of the   *)
(* epoch), which exceeds the model's integers.                             *)
NaN == [n |-> 0, d |-> 0]
Infinity == [n |-> 1, d |-> 0]

digit(c) ==
    CASE c = "0" -> 0 [] c = "1" -> 1 [] c = "2" -> 2 [] c = "3" -> 3
      [] c = "4" -> 4 [] c = "5" -> 5 [] c = "6" -> 6 [] c = "7" -> 7
      [] c = "8" -> 8 [] c = "9" -> 9 [] OTHER -> -1

charAt(s, i) == SubSeq(s, i, i)

\* the decimal field of s at positions i..j, -1 if one of them is no digit
RECURSIVE field(_, _, _)
field(s, i, j) ==
    IF j < i THEN 0
    ELSE LET head == field(s, i, j - 1)
             last == digit(charAt(s, j))
         IN  IF head < 0 \/ last < 0 THEN -1 ELSE 10 * head + last

IsLeap(y) == (y % 4 = 0 /\ y % 100 # 0) \/ y % 400 = 0

MonthLengths(y) ==
    <<31, IF IsLeap(y) THEN 29 ELSE 28, 31, 30, 31, 30, 31, 31, 30, 31, 30, 31>>

LeapDaysBefore(y) == (y - 1) \div 4 - (y - 1) \div 100 + (y - 1) \div 400

RECURSIVE DaysBeforeMonth(_, _)
DaysBeforeMonth(y, m) ==
    IF m = 1 THEN 0 ELSE DaysBeforeMonth(y, m - 1) + MonthLengths(y)[m - 1]

\* days from 1 January 2023 to the given day
MakeDay(y, m, d) ==
    365 * (y - 2023) + LeapDaysBefore(y) - LeapDaysBefore(2023)
        + DaysBeforeMonth(y, m) + (d - 1)

\* Date.parse as new Date(string) applies it to the forms of the model's
\* strings: the date-time form YYYY-MM-DDTHH:mm:ssZ and the date-only form
\* YYYY-MM-DD (midnight UTC) of ECMAScript; a string of neither form is
\* unparseable.  The day of the month is accepted up to 31, as Node's
\* parser does.
DateParse(str) ==
    LET dateOnly == Len(str) = 10
        year == field(str, 1, 4)
        month == field(str, 6, 7)
        day == field(str, 9, 10)
        hour == IF dateOnly THEN 0 ELSE field(str, 12, 13)
        minute == IF dateOnly THEN 0 ELSE field(str, 15, 16)
        second == IF dateOnly THEN 0 ELSE field(str, 18, 19)
        wellFormed ==
            /\ charAt(str, 5) = "-" /\ charAt(str, 8) = "-"
            /\ year >= 0 /\ month >= 0 /\ day >= 0
            /\ dateOnly \/
                   /\ charAt(str, 11) = "T"
                   /\ charAt(str, 14) = ":" /\ charAt(str, 17) = ":"
                   /\ charAt(str, 20) = "Z"
                   /\ hour >= 0 /\ minute >= 0 /\ second >= 0
        legal ==
            /\ month \in 1..12 /\ day \in 1..31
            /\ hour \in 0..23 /\ minute \in 0..59 /\ second \in 0..59
    IN  IF Len(str) \notin {10, 20} THEN NaN
        ELSE IF wellFormed /\ legal
        THEN Num(Hours(24 * MakeDay(year, month, day) + hour)
                     + Seconds(60 * minute + second))
        ELSE NaN

\* TimeClip of new Date(number): NaN for a number that is not finite,
\* otherwise the number truncated towards zero
TimeClip(time) ==
    IF ~IsFinite(time) THEN NaN
    ELSE IF time.n >= 0 THEN Num(time.n \div time.d)
    ELSE Num(-((-time.n) \div time.d))

\* Faulty variant: the Invalid Date is handed back
parseISO8601_unchecked(dateStr) ==
    LET date == DateParse(dateStr)
    IN  Some(date)

\* new Date(dateStr) raises for no string, so the catch clause is not
\* entered
parseISO8601(dateStr) ==
    LET date == DateParse(dateStr)
    IN  IF IsNaN(date) THEN undefined ELSE Some(date)

parseEpochMs(timestamp) ==
    LET date == TimeClip(timestamp)
    IN  IF IsNaN(date) THEN undefined ELSE Some(date)

-----------------------------------------------------------------------------
(* The row renderer of src/dist/index.js.  A cell is [text, style]: the    *)
(* style is the chalk colour wrapped around the text, "plain" for none.    *)
Cell(text, style) == [text |-> text, style |-> style]

getProviderColor(provider) ==
    CASE provider = "Claude" -> "#D97757"
      [] provider = "Codex (OpenAI)" -> "#10A37F"
      [] provider = "Kimi" -> "#1E88E5"
      [] provider = "Z.AI" -> "#7C3AED"
      [] provider = "OpenCode" -> "#6366F1"
      [] provider = "OpenCode Zen" -> "#6366F1"
      [] provider = "Gemini CLI" -> "#4285F4"
      [] provider = "OpenRouter" -> "#FF6B6B"
      [] provider = "MiniMax" -> "#FF9500"
      [] provider = "Antigravity" -> "#00D9FF"
      [] OTHER -> "#FFFFFF"

truncate(str, maxLength) ==
    IF Len(str) <= maxLength THEN str
    ELSE SubSeq(str, 1, maxLength - 3) \o "..."

\* usage.error is tested for truthiness: undefined and "" are both falsy
Truthy(o) == IsDefined(o) /\ Val(o) # ""

formatProviderRow(usage, t) ==
    LET hex == getProviderColor(usage.provider)
        fiveHourText == formatWindow(usage.primaryWindow, t)
        weeklyText == formatWindow(usage.secondaryWindow, t)
        mcpText == formatWindow(usage.tertiaryWindow, t)
        pace == IF usage.provider = "Z.AI"
                THEN calculateMonthlyPace(usage.tertiaryWindow, t)
                ELSE calculatePace(usage.secondaryWindow, t)
        paceColor == getPaceColor(pace)
        coloredPace ==
            IF paceColor = "green" THEN Cell(pace, "green")
            ELSE IF paceColor = "red" THEN Cell(pace, "red")
            ELSE IF paceColor = "yellow" THEN Cell(pace, "yellow")
            ELSE Cell(pace, "white")
    IN  IF Truthy(usage.error)
        THEN << Cell(usage.provider, hex),
                Cell(truncate(Val(usage.error), 20), "red"),
                Cell("", "plain"), Cell("", "plain"), Cell("", "plain") >>
        ELSE << Cell(usage.provider, hex),
                Cell(fiveHourText, "plain"),
                Cell(weeklyText, "plain"),
                Cell(mcpText, "plain"),
                coloredPace >>

-----------------------------------------------------------------------------
(* Inputs.                                                                 *)
MaxUsed == 12

\* limit 0 is "unknown"; with limit 20 a unit of used is 5 % of the limit
Limits == {0, 20}

Dec(hundredths) == Frac(hundredths, 100)

\* Clock readings: 1 Jan 06:00 (before noon of the 1st), 16 Jan 12:00,
\* 1 Feb 06:00
NowHours == {6, 372, 750}

\* Reset instants, in hours since tick 0: before, inside and beyond each of
\* the cycles as seen from the clock readings
ResetHours == {6, 12, 376, 378, 456, 540, 732, 1100}

OptionalResets == {undefined} \cup {Some(Hours(h)) : h \in ResetHours}

\* utilization as the adapters derive it from used and limit
derivedUtilization(used, limit) ==
    IF limit > 0 THEN Frac(100 * used, limit) ELSE Num(0)

\* utilization as an adapter copies it from the provider's own percentage
ProvidedUtilization == Dec(1234)

MkWindow(used, limit, utilization, resetAt, minU, maxU) ==
    [used |-> Num(used), limit |-> Num(limit),
     remaining |-> Num(limit - used), utilization |-> utilization,
     resetAt |-> resetAt, minUtilization |-> minU, maxUtilization |-> maxU]

PaceWindows ==
    { MkWindow(u, l,
               IF k = 0 THEN derivedUtilization(u, l) ELSE ProvidedUtilization,
               r, undefined, undefined) :
          u \in 0..MaxUsed, l \in Limits, k \in {0, 1}, r \in OptionalResets }

\* windows that aggregate sub-quotas into a range
RangeWindows ==
    { MkWindow(10, 100, util, r, minU, maxU) :
          util \in {ProvidedUtilization, Num(88)},
          r \in {undefined, Some(Hours(376))},
          minU \in {undefined, Some(Num(5)), Some(Dec(1001)), Some(Dec(1004))},
          maxU \in {undefined, Some(Dec(1004)), Some(Num(88))} }

Windows == PaceWindows \cup RangeWindows

OptionalWindows == {undefined} \cup {Some(w) : w \in Windows}

Providers == {"Z.AI", "Codex (OpenAI)"}

Errors == {undefined, Some(""), Some("HTTP 500: Internal Server Error")}

\* which of the three slots of a ProviderUsage carry the window
Slots == { {}, {1, 2}, {1, 3}, {1, 2, 3} }

MkUsage(provider, w, slots, error) ==
    [provider |-> provider,
     primaryWindow |-> IF 1 \in slots THEN w ELSE undefined,
     secondaryWindow |-> IF 2 \in slots THEN w ELSE undefined,
     tertiaryWindow |-> IF 3 \in slots THEN w ELSE undefined,
     error |-> error]

PaceOps == {"calculatePace", "calculateFiveHourPace",
            "calculateMonthlyPace", "calculateMonthlyPaceTs"}

\* Durations handed to formatDuration, in ticks: days, hours, minutes and
\* a rest below the minute (a tick, a second, 59.9 s), and their negatives
MaxDays == 2

Deltas ==
    LET positive ==
            { Hours(24 * d + h) + Seconds(60 * m) + s :
                  d \in 0..MaxDays, h \in {0, 3, 23}, m \in {0, 4, 59},
                  s \in {0, 1, 10, 599} }
    IN  positive \cup { -x : x \in {1, 600, Hours(5), Hours(27)} }

DateStrings ==
    { "", "not-a-date", "2023-01-16", "2023-13-01T00:00:00Z",
      "2023-01-16T12:00:00Z", "2023-01-16T16:00:00Z", "2023-02-01T06:00:00Z",
      "2024-03-01T00:00:00Z" }

Timestamps ==
    { NaN, Infinity, [n |-> -1, d |-> 0], Num(0), Num(-Hours(5)),
      Num(Hours(376)), Frac(2 * Hours(376) + 1, 2),
      Frac(-(2 * Hours(5) + 1), 2) }

-----------------------------------------------------------------------------
Init ==
    /\ now = Hours(6)
    /\ window \in OptionalWindows
    /\ op = "idle"
    /\ out = ""
    /\ color = ""
    /\ row = <<>>
    /\ arg = undefined
    /\ parsed = undefined
    /\ pc = "start"
    /\ argv = [showAntigravityDetails |-> FALSE, showHelp |-> FALSE]
    /\ auth = undefined
    /\ accountsFile = undefined
    /\ upstream = <<>>
    /\ promise = <<>>
    /\ table = <<>>
    /\ calls = <<>>
    /\ exitCode = undefined
    /\ running = ""
    /\ reads = <<>>

\* the wall clock advances; what was computed from the earlier reading is
\* dropped
Tick ==
    /\ \E h \in NowHours : Hours(h) > now /\ now' = Hours(h)
    /\ op' = "idle"
    /\ out' = ""
    /\ color' = ""
    /\ row' = <<>>
    /\ arg' = undefined
    /\ parsed' = undefined
    /\ UNCHANGED window
    /\ UNCHANGED <<mainVars, callVars>>

\* A call is made on a fresh clock reading (op = "idle") and returns a string.
Returns(name, text) ==
    /\ op' = name
    /\ out' = text
    /\ color' = ""
    /\ row' = <<>>
    /\ UNCHANGED <<now, window, arg, parsed>>
    /\ UNCHANGED <<mainVars, callVars>>

CalculatePace ==
    /\ op = "idle"
    /\ Returns("calculatePace", calculatePace(window, now))

CalculateFiveHourPace ==
    /\ op = "idle"
    /\ Returns("calculateFiveHourPace", calculateFiveHourPace(window, now))

CalculateMonthlyPace ==
    /\ op = "idle"
    /\ Returns("calculateMonthlyPace", calculateMonthlyPace(window, now))

CalculateMonthlyPaceTs ==
    /\ op = "idle"
    /\ Returns("calculateMonthlyPaceTs", calculateMonthlyPaceTs(window, now))

FormatWindow ==
    /\ op = "idle"
    /\ Returns("formatWindow", formatWindow(window, now))

FormatWindowTs ==
    /\ op = "idle"
    /\ Returns("formatWindowTs", formatWindowTs(window, now))

\* The functions of a scalar take no window: they are applied where there
\* is none.
FormatDuration ==
    /\ op = "idle"
    /\ ~IsDefined(window)
    /\ \E ms \in Deltas :
           /\ arg' = Some(ms)
           /\ out' = formatDuration(ms)
    /\ op' = "formatDuration"
    /\ color' = ""
    /\ row' = <<>>
    /\ parsed' = undefined
    /\ UNCHANGED <<now, window>>
    /\ UNCHANGED <<mainVars, callVars>>

ParseISO8601 ==
    /\ op = "idle"
    /\ ~IsDefined(window)
    /\ \E dateStr \in DateStrings :
           /\ arg' = Some(dateStr)
           /\ parsed' = parseISO8601(dateStr)
    /\ op' = "parseISO8601"
    /\ out' = ""
    /\ color' = ""
    /\ row' = <<>>
    /\ UNCHANGED <<now, window>>
    /\ UNCHANGED <<mainVars, callVars>>

ParseEpochMs ==
    /\ op = "idle"
    /\ ~IsDefined(window)
    /\ \E timestamp \in Timestamps :
           /\ arg' = Some(timestamp)
           /\ parsed' = parseEpochMs(timestamp)
    /\ op' = "parseEpochMs"
    /\ out' = ""
    /\ color' = ""
    /\ row' = <<>>
    /\ UNCHANGED <<now, window>>
    /\ UNCHANGED <<mainVars, callVars>>

\* getPaceColor applied to the string a pace calculator returned
GetPaceColor ==
    /\ op \in PaceOps
    /\ color = ""
    /\ color' = getPaceColor(out)
    /\ UNCHANGED <<now, window, op, out, row, arg, parsed>>
    /\ UNCHANGED <<mainVars, callVars>>

GetPaceColorTs ==
    /\ op \in PaceOps
    /\ color = ""
    /\ color' = getPaceColorTs(out)
    /\ UNCHANGED <<now, window, op, out, row, arg, parsed>>
    /\ UNCHANGED <<mainVars, callVars>>

\* one row of the table, for a ProviderUsage whose slots carry the window
FormatProviderRow ==
    /\ op = "idle"
    /\ \E provider \in Providers, slots \in Slots, error \in Errors :
           row' = formatProviderRow(MkUsage(provider, window, slots, error),
                                    now)
    /\ op' = "formatProviderRow"
    /\ out' = ""
    /\ color' = ""
    /\ UNCHANGED <<now, window, arg, parsed>>
    /\ UNCHANGED <<mainVars, callVars>>

-----------------------------------------------------------------------------
(* Provider adapters.  fetchUsage is an async function: it settles its     *)
(* promise by returning (fulfilled) or by an error that leaves it          *)
(* (rejected).  What the network, the file system and a child process      *)
(* answer is an argument of the operator that models the adapter.          *)
(*                                                                         *)
(* A ProviderUsage is modelled with the fields the orchestrator reads:     *)
(* provider, the three windows, error, errorCode and subRows; plan and     *)
(* additionalInfo are built inside the same try blocks and are not shown   *)
(* in the table.                                                           *)

ProviderUsage(provider, primaryWindow, secondaryWindow, tertiaryWindow, subRows) ==
    [provider |-> provider,
     primaryWindow |-> primaryWindow,
     secondaryWindow |-> secondaryWindow,
     tertiaryWindow |-> tertiaryWindow,
     error |-> undefined,
     errorCode |-> undefined,
     subRows |-> subRows]

\* Faulty variant: the failure also carries a window of zero usage
Failure_withWindow(provider, error) ==
    [provider |-> provider,
     primaryWindow |->
         Some([used |-> [n |-> 0, d |-> 1], limit |-> [n |-> 100, d |-> 1],
               remaining |-> [n |-> 100, d |-> 1],
               utilization |-> [n |-> 0, d |-> 1], resetAt |-> undefined,
               minUtilization |-> undefined, maxUtilization |-> undefined]),
     secondaryWindow |-> undefined,
     tertiaryWindow |-> undefined,
     error |-> Some(error),
     errorCode |-> undefined,
     subRows |-> undefined]

\* { provider: this.displayName, error }
Failure(provider, error) ==
    [provider |-> provider,
     primaryWindow |-> undefined,
     secondaryWindow |-> undefined,
     tertiaryWindow |-> undefined,
     error |-> Some(error),
     errorCode |-> undefined,
     subRows |-> undefined]

UsageWindow(used, limit, remaining, utilization, resetAt) ==
    [used |-> used, limit |-> limit, remaining |-> remaining,
     utilization |-> utilization, resetAt |-> resetAt,
     minUtilization |-> undefined, maxUtilization |-> undefined]

\* a valid Date held by a window, as the whole number of ticks getTime()
\* returns
AsInstant(d) == IF IsDefined(d) THEN Some(Val(d).n) ELSE undefined

\* how a promise settles
Fulfilled(value) == [state |-> "fulfilled", value |-> Some(value)]
Rejected == [state |-> "rejected", value |-> undefined]

\* how the body of a try block ends
Threw(message) == [threw |-> TRUE, message |-> message, value |-> undefined]
Returned(value) == [threw |-> FALSE, message |-> "", value |-> Some(value)]

\* Faulty variant: the error is thrown on instead of being returned
catchAsError_rethrow(displayName, attempt) ==
    IF attempt.threw THEN Rejected
    ELSE Fulfilled(Val(attempt.value))

\* try { ... } catch (error) { return { provider, error: error.message } }
catchAsError(displayName, attempt) ==
    IF attempt.threw THEN Fulfilled(Failure(displayName, attempt.message))
    ELSE Fulfilled(Val(attempt.value))

\* What fetch() answers: it rejects (no connection), or resolves to a
\* response with a status and a body; the body is absent when it is not
\* JSON, so that response.json() rejects.
NetworkError == [kind |-> "rejects", status |-> 0, body |-> undefined]
Response(status, body) == [kind |-> "response", status |-> status, body |-> body]

FailureStatuses == {401, 403, 404, 500, 503}

Responses(bodies) ==
    {NetworkError}
        \cup { Response(st, undefined) : st \in FailureStatuses }
        \cup { Response(200, undefined) }
        \cup { Response(200, Some(b)) : b \in bodies }

ok(status) == status \in 200..299

statusText(status) ==
    CASE status = 200 -> "OK"
      [] status = 401 -> "Unauthorized"
      [] status = 403 -> "Forbidden"
      [] status = 404 -> "Not Found"
      [] status = 500 -> "Internal Server Error"
      [] status = 503 -> "Service Unavailable"
      [] OTHER -> ""

\* the messages of the errors the runtime raises
FetchFailed == "fetch failed"
JsonSyntaxError == "Unexpected token < in JSON at position 0"

\* await fetch(url); if (!response.ok) throw new Error(`HTTP ...`);
\* await response.json()
fetchJson(response) ==
    IF response.kind = "rejects" THEN Threw(FetchFailed)
    ELSE IF ~ok(response.status)
    THEN Threw("HTTP " \o ToString(response.status) \o ": "
                   \o statusText(response.status))
    ELSE IF ~IsDefined(response.body) THEN Threw(JsonSyntaxError)
    ELSE Returned(Val(response.body))

\* auth[key]?.key and auth[key]?.access
keyOf(auth_, k) == IF IsDefined(auth_[k]) THEN Some(Val(auth_[k]).key) ELSE undefined
accessOf(auth_, k) ==
    IF IsDefined(auth_[k]) THEN Some(Val(auth_[k]).access) ELSE undefined

\* x || 0 for a number
OrZero(x) == IF IsNaN(x) THEN Num(0) ELSE x

\* parseInt(s, 10): the leading decimal digits, NaN when there is none
RECURSIVE digitsPrefix(_, _)
digitsPrefix(s, i) ==
    IF i > Len(s) \/ digit(charAt(s, i)) < 0 THEN i - 1
    ELSE digitsPrefix(s, i + 1)

parseInt(s) ==
    LET k == digitsPrefix(s, 1)
    IN  IF k = 0 THEN NaN ELSE Num(field(s, 1, k))

\* src/src/providers/kimi.ts, class ClaudeProvider
ClaudeBodies ==
    { [five_hour |-> undefined, seven_day |-> undefined],
      [five_hour |-> Some([utilization |-> Dec(1234),
                           resets_at |-> Some("2023-01-16T16:00:00Z")]),
       seven_day |-> Some([utilization |-> Num(40),
                           resets_at |-> undefined])],
      [five_hour |-> undefined,
       seven_day |-> Some([utilization |-> Num(95),
                           resets_at |-> Some("not-a-date")])] }

ClaudeProvider(auth_, response, t) ==
    LET displayName == "Claude"
        token == accessOf(auth_, "anthropic")
        got == fetchJson(response)
        windowOf(w) ==
            IF ~IsDefined(w) THEN undefined
            ELSE Some(UsageWindow(
                     Val(w).utilization, Num(100),
                     NumSub(Num(100), Val(w).utilization),
                     Val(w).utilization,
                     IF Truthy(Val(w).resets_at)
                     THEN AsInstant(parseISO8601(Val(Val(w).resets_at)))
                     ELSE undefined))
    IN  IF ~Truthy(token)
        THEN Fulfilled(Failure(displayName,
                               "No Anthropic token found in auth.json"))
        ELSE catchAsError(displayName,
                 IF got.threw THEN got
                 ELSE LET data == Val(got.value)
                      IN  Returned(ProviderUsage(
                              displayName, windowOf(data.five_hour),
                              windowOf(data.seven_day), undefined,
                              undefined)))

\* src/src/providers/codex.ts; reset_at and reset_after_seconds are seconds
CodexBodies ==
    { [rate_limit |-> undefined],
      [rate_limit |->
           Some([primary_window |->
                     Some([used_percent |-> Num(30),
                           reset_after_seconds |-> 4 * 3600,
                           reset_at |-> 376 * 3600]),
                 secondary_window |->
                     Some([used_percent |-> Num(55),
                           reset_after_seconds |-> 84 * 3600,
                           reset_at |-> 0])])],
      [rate_limit |->
           Some([primary_window |->
                     Some([used_percent |-> Num(100),
                           reset_after_seconds |-> 0,
                           reset_at |-> 0]),
                 secondary_window |-> undefined])] }

CodexProvider(auth_, response, t) ==
    LET displayName == "Codex (OpenAI)"
        token == accessOf(auth_, "openai")
        got == fetchJson(response)
        windowOf(w) ==
            IF ~IsDefined(w) THEN undefined
            ELSE Some(UsageWindow(
                     Val(w).used_percent, Num(100),
                     NumSub(Num(100), Val(w).used_percent),
                     Val(w).used_percent,
                     IF Val(w).reset_at # 0
                     THEN Some(Seconds(Val(w).reset_at))
                     ELSE Some(t + Seconds(Val(w).reset_after_seconds))))
    IN  IF ~Truthy(token)
        THEN Fulfilled(Failure(displayName,
                               "No OpenAI token found in auth.json"))
        ELSE catchAsError(displayName,
                 IF got.threw THEN got
                 ELSE LET data == Val(got.value)
                          rate_limit == data.rate_limit
                      IN  Returned(ProviderUsage(
                              displayName,
                              IF IsDefined(rate_limit)
                              THEN windowOf(Val(rate_limit).primary_window)
                              ELSE undefined,
                              IF IsDefined(rate_limit)
                              THEN windowOf(Val(rate_limit).secondary_window)
                              ELSE undefined,
                              undefined, undefined)))

\* src/src/providers/kimi.ts, class KimiProvider
KimiBodies ==
    { [usage |-> undefined, limits |-> <<>>],
      [usage |-> Some([limit |-> "100", used |-> "40", remaining |-> "60",
                       resetTime |-> "2023-01-20T12:00:00Z"]),
       limits |-> << [detail |-> [limit |-> "20", used |-> "19",
                                  remaining |-> "1",
                                  resetTime |-> "2023-01-16T16:00:00Z"]] >>],
      [usage |-> Some([limit |-> "", used |-> "n/a", remaining |-> "",
                       resetTime |-> ""]),
       limits |-> <<>>] }

KimiProvider(auth_, response, t) ==
    LET displayName == "Kimi"
        token == keyOf(auth_, "kimi-for-coding")
        got == fetchJson(response)
        windowOf(detail) ==
            LET limit == OrZero(parseInt(detail.limit))
                used == OrZero(parseInt(detail.used))
                remaining == OrZero(parseInt(detail.remaining))
            IN  UsageWindow(
                    used, limit, remaining,
                    IF NumLess(Num(0), limit)
                    THEN NumMul(NumDiv(used, limit), Num(100))
                    ELSE Num(0),
                    AsInstant(parseISO8601(detail.resetTime)))
    IN  IF ~Truthy(token)
        THEN Fulfilled(Failure(displayName,
                               "No Kimi API key found in auth.json"))
        ELSE catchAsError(displayName,
                 IF got.threw THEN got
                 ELSE LET data == Val(got.value)
                          weeklyWindow ==
                              IF IsDefined(data.usage)
                              THEN Some(windowOf(Val(data.usage)))
                              ELSE undefined
                          fiveHourWindow ==
                              IF Len(data.limits) > 0
                              THEN Some(windowOf(data.limits[1].detail))
                              ELSE undefined
                      IN  Returned(ProviderUsage(
                              displayName, fiveHourWindow, weeklyWindow,
                              undefined, undefined)))

\* x || d for a number: 0 and NaN are falsy
OrElse(x, d) == IF IsNaN(x) \/ NumEq(x, Num(0)) THEN d ELSE x

\* new Date(year, month + 1, 0, 23, 59, 59): the last second of the month
endOfMonth(t) == startOfMonth(t) - Hours(12)
                     + Hours(24 * DaysInMonth[CHOOSE m \in 1..Len(DaysInMonth) :
                                 monthStart(m) + Hours(12) = startOfMonth(t)])
                     - Seconds(1)

\* src/dist/providers/zai.js.  A limit item is [type, percentage,
\* currentValue, total, nextResetTime]: percentage is a number, or a string
\* of decimal digits when isString holds; an absent number is NaN and an
\* absent nextResetTime is 0.
ZaiItem(type, isString, text, number, currentValue, total, nextResetTime) ==
    [type |-> type,
     percentage |-> [isString |-> isString, text |-> text, number |-> number],
     currentValue |-> currentValue, total |-> total,
     nextResetTime |-> nextResetTime]

ZaiTokens == ZaiItem("TOKENS_LIMIT", FALSE, "", Num(45), Num(450), Num(1000),
                     Num(Hours(376)))
ZaiTime == ZaiItem("TIME_LIMIT", TRUE, "60", NaN, Num(60), NaN, Num(0))

ZaiBodies ==
    { [data |-> undefined, limits |-> <<>>],
      [data |-> undefined, limits |-> <<ZaiTokens, ZaiTime>>],
      [data |-> Some([limits |-> <<ZaiTime>>]), limits |-> <<>>],
      [data |-> Some([limits |-> <<ZaiTokens>>]), limits |-> <<>>] }

\* the last item of the given type, as the for loop leaves it
RECURSIVE lastOfType(_, _, _)
lastOfType(limits, type, i) ==
    IF i = 0 THEN undefined
    ELSE IF limits[i].type = type THEN Some(limits[i])
    ELSE lastOfType(limits, type, i - 1)

ZaiProvider(auth_, response, t) ==
    LET displayName == "Z.AI"
        token == keyOf(auth_, "zai-coding-plan")
        got == fetchJson(response)
        percentageOf(item) ==
            IF item.percentage.isString THEN parseInt(item.percentage.text)
            ELSE OrElse(item.percentage.number, Num(0))
        windowOf(item, resetAt) ==
            LET total == OrElse(item.total, Num(100))
                used == OrElse(item.currentValue, Num(0))
            IN  UsageWindow(used, total, NumSub(total, used),
                            percentageOf(item), resetAt)
        nextReset(item) ==
            IF ~NumEq(item.nextResetTime, Num(0)) /\ ~IsNaN(item.nextResetTime)
            THEN AsInstant(parseEpochMs(item.nextResetTime))
            ELSE undefined
    IN  IF ~Truthy(token)
        THEN Fulfilled(Failure(displayName,
                               "No Z.AI API key found in auth.json"))
        ELSE catchAsError(displayName,
                 IF got.threw THEN got
                 ELSE LET rawData == Val(got.value)
                          limits == IF IsDefined(rawData.data)
                                    THEN Val(rawData.data).limits
                                    ELSE rawData.limits
                          tokensLimit ==
                              lastOfType(limits, "TOKENS_LIMIT", Len(limits))
                          timeLimit ==
                              lastOfType(limits, "TIME_LIMIT", Len(limits))
                          primaryLimit == IF IsDefined(tokensLimit)
                                          THEN tokensLimit ELSE timeLimit
                          primaryWindow ==
                              IF IsDefined(primaryLimit)
                              THEN Some(windowOf(Val(primaryLimit),
                                                 nextReset(Val(primaryLimit))))
                              ELSE undefined
                          secondaryWindow ==
                              IF IsDefined(tokensLimit) /\ IsDefined(timeLimit)
                              THEN Some(windowOf(Val(timeLimit),
                                                 nextReset(Val(timeLimit))))
                              ELSE undefined
                          tertiaryWindow ==
                              IF IsDefined(timeLimit)
                              THEN Some(windowOf(Val(timeLimit),
                                                 Some(endOfMonth(t))))
                              ELSE undefined
                      IN  Returned(ProviderUsage(
                              displayName, primaryWindow, secondaryWindow,
                              tertiaryWindow, undefined)))

\* src/dist/providers/opencode.js.  A body is [notFound, data]: notFound
\* says that the text includes "Not Found"; data is absent or
\* [total_credits, used_credits, remaining_credits].
OpenCodeBodies ==
    { [notFound |-> TRUE, data |-> undefined],
      [notFound |-> FALSE, data |-> undefined],
      [notFound |-> FALSE,
       data |-> Some([total_credits |-> Num(20), used_credits |-> Num(5),
                      remaining_credits |-> Num(15)])] }

EndpointUnavailable == "API endpoint not available (may be in development)"

OpenCodeProvider(auth_, response, t) ==
    LET displayName == "OpenCode"
        token == keyOf(auth_, "opencode")
        creditsOf(data) ==
            LET total == IF IsDefined(data) THEN Val(data).total_credits
                         ELSE Num(0)
                used == IF IsDefined(data) THEN Val(data).used_credits
                        ELSE Num(0)
                remaining == IF IsDefined(data)
                             THEN Val(data).remaining_credits ELSE Num(0)
            IN  UsageWindow(used, total, remaining,
                            IF NumLess(Num(0), total)
                            THEN NumMul(NumDiv(used, total), Num(100))
                            ELSE Num(0),
                            undefined)
    IN  IF ~Truthy(token)
        THEN Fulfilled(Failure(displayName,
                               "No OpenCode API key found in auth.json"))
        ELSE catchAsError(displayName,
                 IF response.kind = "rejects" THEN Threw(FetchFailed)
                 ELSE IF response.status \in {404, 503}
                 THEN Returned(Failure(displayName, EndpointUnavailable))
                 ELSE IF ~ok(response.status)
                 THEN Threw("HTTP " \o ToString(response.status) \o ": "
                                \o statusText(response.status))
                 ELSE IF ~IsDefined(response.body) THEN Threw(JsonSyntaxError)
                 ELSE IF Val(response.body).notFound
                 THEN Returned(Failure(displayName, EndpointUnavailable))
                 ELSE Returned(ProviderUsage(
                          displayName,
                          Some(creditsOf(Val(response.body).data)),
                          undefined, undefined, undefined)))

\* src/dist/providers/openrouter.js.  The upstream is the pair of answers
\* to the two requests awaited together; only the credits body is read for
\* the windows, the key body only has to be JSON.
OpenRouterBodies ==
    { [data |-> undefined],
      [data |-> Some([total_credits |-> Num(50), total_usage |-> Num(20)])],
      [data |-> Some([total_credits |-> Num(0), total_usage |-> Num(0)])] }

\* the answer about the key is varied against one answer about the credits
OpenRouterUpstreams ==
    { u \in [credits : Responses(OpenRouterBodies),
             key : {NetworkError, Response(401, undefined),
                    Response(200, undefined),
                    Response(200, Some([data |-> undefined]))}] :
          u.key # Response(200, Some([data |-> undefined]))
              => u.credits = Response(200, Some([data |-> undefined])) }

OpenRouterProvider(auth_, response, t) ==
    LET displayName == "OpenRouter"
        token == keyOf(auth_, "openrouter")
        creditsResponse == response.credits
        keyResponse == response.key
    IN  IF ~Truthy(token)
        THEN Fulfilled(Failure(displayName,
                               "No OpenRouter API key found in auth.json"))
        ELSE catchAsError(displayName,
                 IF creditsResponse.kind = "rejects"
                        \/ keyResponse.kind = "rejects"
                 THEN Threw(FetchFailed)
                 ELSE IF ~ok(creditsResponse.status)
                 THEN Threw("Credits API HTTP "
                                \o ToString(creditsResponse.status))
                 ELSE IF ~IsDefined(creditsResponse.body)
                 THEN Threw(JsonSyntaxError)
                 ELSE IF ok(keyResponse.status) /\ ~IsDefined(keyResponse.body)
                 THEN Threw(JsonSyntaxError)
                 ELSE LET creditsData == Val(creditsResponse.body)
                          total == IF IsDefined(creditsData.data)
                                   THEN Val(creditsData.data).total_credits
                                   ELSE Num(0)
                          used == IF IsDefined(creditsData.data)
                                  THEN Val(creditsData.data).total_usage
                                  ELSE Num(0)
                      IN  Returned(ProviderUsage(
                              displayName,
                              Some(UsageWindow(
                                  used, total, NumSub(total, used),
                                  IF NumLess(Num(0), total)
                                  THEN NumMul(NumDiv(used, total), Num(100))
                                  ELSE Num(0),
                                  undefined)),
                              undefined, undefined, undefined)))

\* src/src/providers/minimax.ts.  A timestamp is [seconds, at]: seconds says
\* that the number is below 1e12 and counts seconds, at is the instant it
\* names; a timestamp of 0 is an absent one.
MiniMaxModel(remaining, total, remains_time, end_time) ==
    [current_interval_usage_count |-> remaining,
     current_interval_total_count |-> total,
     remains_time |-> remains_time, end_time |-> end_time]

MiniMaxBodies ==
    { [status_code |-> 1004, status_msg |-> "invalid api key",
       model_remains |-> <<>>],
      [status_code |-> 0, status_msg |-> "success", model_remains |-> <<>>],
      [status_code |-> 0, status_msg |-> "success",
       model_remains |->
           << MiniMaxModel(30, 100, undefined,
                           Some([seconds |-> FALSE, at |-> Hours(400)])),
              MiniMaxModel(10, 50,
                           Some([seconds |-> TRUE, at |-> Hours(376)]),
                           undefined) >>] }

\* the sums and the earliest reset after the first i models
RECURSIVE remains(_, _)
remains(models, i) ==
    IF i = 0
    THEN [totalRemaining |-> 0, totalLimit |-> 0, earliestReset |-> undefined]
    ELSE LET before == remains(models, i - 1)
             model == models[i]
             stamp == IF IsDefined(model.remains_time) THEN model.remains_time
                      ELSE model.end_time
         IN  [totalRemaining |->
                  before.totalRemaining + model.current_interval_usage_count,
              totalLimit |->
                  before.totalLimit + model.current_interval_total_count,
              earliestReset |->
                  IF IsDefined(stamp)
                         /\ (~IsDefined(before.earliestReset)
                                \/ Val(stamp).at < Val(before.earliestReset))
                  THEN Some(Val(stamp).at)
                  ELSE before.earliestReset]

MiniMaxProvider(auth_, response, t) ==
    LET displayName == "MiniMax"
        token == keyOf(auth_, "minimax-coding-plan")
        got == fetchJson(response)
    IN  IF ~Truthy(token)
        THEN Fulfilled(Failure(displayName,
                               "No MiniMax API key found in auth.json"))
        ELSE catchAsError(displayName,
                 IF got.threw THEN got
                 ELSE LET data == Val(got.value)
                          sums == remains(data.model_remains,
                                          Len(data.model_remains))
                          totalUsed == sums.totalLimit - sums.totalRemaining
                      IN  IF data.status_code # 0
                          THEN Threw("API error: " \o data.status_msg)
                          ELSE Returned(ProviderUsage(
                                   displayName,
                                   IF sums.totalLimit > 0
                                   THEN Some(UsageWindow(
                                            Num(totalUsed),
                                            Num(sums.totalLimit),
                                            Num(sums.totalRemaining),
                                            NumMul(Frac(totalUsed,
                                                        sums.totalLimit),
                                                   Num(100)),
                                            sums.earliestReset))
                                   ELSE undefined,
                                   undefined, undefined, undefined)))

\* src/src/providers/opencode-zen.ts.  The upstream is the local CLI:
\* binary says whether findOpenCodeBinary finds it, stats is the total cost
\* parseStats reads from the output of the stats command, absent when the
\* command fails.
OpenCodeZenUpstreams ==
    { [binary |-> FALSE, stats |-> undefined] }
        \cup { [binary |-> TRUE, stats |-> st] :
                   st \in {undefined, Some(Num(0)), Some(Frac(25, 2)),
                           Some(Num(1500))} }

monthlyLimit == Num(1000)

NumMin(a, b) == IF NumLess(b, a) THEN b ELSE a
NumMax(a, b) == IF NumLess(a, b) THEN b ELSE a

OpenCodeZenProvider(auth_, response, t) ==
    LET displayName == "OpenCode Zen"
        noUsage == UsageWindow(Num(0), monthlyLimit, monthlyLimit, Num(0),
                               undefined)
    IN  IF ~response.binary
        THEN Fulfilled(Failure(displayName, "OpenCode CLI not found"))
        ELSE IF ~IsDefined(response.stats)
        THEN Fulfilled(ProviderUsage(displayName, Some(noUsage), undefined,
                                     undefined, undefined))
        ELSE LET totalCost == Val(response.stats)
             IN  Fulfilled(ProviderUsage(
                     displayName,
                     Some(UsageWindow(
                         totalCost, monthlyLimit,
                         NumMax(Num(0), NumSub(monthlyLimit, totalCost)),
                         NumMin(NumMul(NumDiv(totalCost, monthlyLimit),
                                       Num(100)),
                                Num(100)),
                         undefined)),
                     undefined, undefined, undefined))

\* ~/.config/opencode/antigravity-accounts.json as getAccounts reads it: the
\* list of its accounts, empty when the file is missing or unreadable
Account(refreshToken, projectId, email) ==
    [refreshToken |-> refreshToken, projectId |-> projectId, email |-> email]

\* src/dist/providers/gemini.js.  The upstream is one outcome per account:
\* the answer of the token endpoint and the answer of the quota endpoint.
GeminiBuckets ==
    { <<>>,
      << [remainingFraction |-> Frac(3, 4),
          resetTime |-> "2023-01-16T16:00:00Z"],
         [remainingFraction |-> Frac(1, 4), resetTime |-> "not-a-date"] >>,
      << [remainingFraction |-> Num(1),
          resetTime |-> "2023-02-01T06:00:00Z"] >> }

TokenResponses ==
    {NetworkError, Response(400, undefined),
     Response(200, Some([access_token |-> "ya29"]))}

GeminiOutcomes ==
    { [refresh |-> r, quota |-> q] :
          r \in TokenResponses,
          q \in {Response(500, undefined)}
                    \cup { Response(200, Some([buckets |-> b])) :
                               b \in GeminiBuckets } }

GeminiUpstreams(accounts) ==
    { u \in UNION { [1..n -> GeminiOutcomes] : n \in {Len(accounts)} } :
          \* a request that is never sent has no answer to vary
          \A i \in 1..Len(accounts) :
              u[i].refresh.status # 200 => u[i].quota.status = 500 }

RECURSIVE minRemainingFraction(_, _)
minRemainingFraction(buckets, i) ==
    IF i = 1 THEN buckets[1].remainingFraction
    ELSE NumMin(minRemainingFraction(buckets, i - 1),
                buckets[i].remainingFraction)

\* Math.min over the reset times that parse
RECURSIVE earliestOf(_, _)
earliestOf(buckets, i) ==
    IF i = 0 THEN undefined
    ELSE LET before == earliestOf(buckets, i - 1)
             d == AsInstant(parseISO8601(buckets[i].resetTime))
         IN  IF ~IsDefined(d) THEN before
             ELSE IF ~IsDefined(before) \/ Val(d) < Val(before) THEN d
             ELSE before

\* one turn of the loop over the accounts: what it adds to results or to
\* errors
geminiAccount(account, outcome) ==
    LET label == "Account "
                     \o (IF Truthy(account.projectId)
                         THEN Val(account.projectId) ELSE "default")
                     \o ": "
        refresh == outcome.refresh
        response == outcome.quota
        nothing == [results |-> <<>>, errors |-> <<>>]
    IN  IF refresh.kind = "rejects"
        THEN [nothing EXCEPT !.errors = <<label \o FetchFailed>>]
        ELSE IF ~ok(refresh.status)
        THEN [nothing EXCEPT !.errors =
                  <<label \o "Token refresh failed: HTTP "
                        \o ToString(refresh.status)>>]
        ELSE IF response.kind = "rejects"
        THEN [nothing EXCEPT !.errors = <<label \o FetchFailed>>]
        ELSE IF ~ok(response.status)
        THEN [nothing EXCEPT !.errors =
                  <<"Account "
                        \o (IF Truthy(account.projectId)
                            THEN Val(account.projectId) ELSE "default")
                        \o ": HTTP " \o ToString(response.status)>>]
        ELSE IF ~IsDefined(response.body)
        THEN [nothing EXCEPT !.errors = <<label \o JsonSyntaxError>>]
        ELSE LET buckets == Val(response.body).buckets
             IN  IF Len(buckets) = 0 THEN nothing
                 ELSE LET minRemaining ==
                              minRemainingFraction(buckets, Len(buckets))
                          used == NumMul(NumSub(Num(1), minRemaining),
                                         Num(100))
                      IN  [nothing EXCEPT !.results =
                               <<UsageWindow(
                                     used, Num(100),
                                     NumMul(minRemaining, Num(100)), used,
                                     earliestOf(buckets, Len(buckets)))>>]

\* results and errors after one more turn of the loop
afterTurn(before, turn) ==
    [results |-> before.results \o turn.results,
     errors |-> before.errors \o turn.errors]

\* a faulty loop that gives up at the first account that fails: break
\* where the code has continue
RECURSIVE geminiLoop_stopOnError(_, _, _)
geminiLoop_stopOnError(accounts, outcomes, i) ==
    IF i = 0 THEN [results |-> <<>>, errors |-> <<>>]
    ELSE IF geminiLoop_stopOnError(accounts, outcomes, i - 1).errors # <<>>
    THEN geminiLoop_stopOnError(accounts, outcomes, i - 1)
    ELSE afterTurn(geminiLoop_stopOnError(accounts, outcomes, i - 1),
                   geminiAccount(accounts[i], outcomes[i]))

RECURSIVE geminiLoop(_, _, _)
geminiLoop(accounts, outcomes, i) ==
    IF i = 0 THEN [results |-> <<>>, errors |-> <<>>]
    ELSE afterTurn(geminiLoop(accounts, outcomes, i - 1),
                   geminiAccount(accounts[i], outcomes[i]))

\* errors.join("; ")
RECURSIVE join(_, _)
join(strings, separator) ==
    IF Len(strings) = 0 THEN ""
    ELSE IF Len(strings) = 1 THEN strings[1]
    ELSE strings[1] \o separator \o join(Tail(strings), separator)

\* results.reduce((min, r) => r.remaining < min.remaining ? r : min)
RECURSIVE minUsage(_, _)
minUsage(results, i) ==
    IF i = 1 THEN results[1]
    ELSE LET min == minUsage(results, i - 1)
         IN  IF NumLess(results[i].remaining, min.remaining)
             THEN results[i] ELSE min

\* what fetchUsage returns once the loop is over
geminiReturn(displayName, results, joined) ==
    IF Len(results) = 0
    THEN Failure(displayName,
                 IF joined # "" THEN joined
                 ELSE "Failed to fetch usage for all accounts")
    ELSE ProviderUsage(displayName, Some(minUsage(results, Len(results))),
                       undefined, undefined, undefined)

afterLoop(displayName, done) ==
    geminiReturn(displayName, done.results, join(done.errors, "; "))

GeminiProvider(accounts, response, t) ==
    LET displayName == "Gemini CLI"
    IN  IF Len(accounts) = 0
        THEN Fulfilled(Failure(
                 displayName,
                 "No Gemini accounts found. Check ~/.config/opencode/antigravity-accounts.json"))
        ELSE Fulfilled(afterLoop(displayName,
                                 geminiLoop(accounts, response,
                                            Len(accounts))))

\* String.prototype.localeCompare on the strings the program sorts, the
\* provider names and the model labels: their order in the root collation
Collation ==
    << "Antigravity", "Claude", "Claude Sonnet 4", "Codex (OpenAI)",
       "Gemini 3 Pro", "Gemini CLI", "gpt-oss-120b", "Kimi", "MiniMax",
       "OpenCode", "OpenCode Zen", "OpenRouter", "Z.AI" >>

localeCompare(a, b) ==
    (CHOOSE i \in 1..Len(Collation) : Collation[i] = a)
        - (CHOOSE i \in 1..Len(Collation) : Collation[i] = b)

\* Array.prototype.sort((a, b) => a.k.localeCompare(b.k)), which is stable,
\* on a list of <<k, item>> pairs: the pair at index i goes behind the pairs
\* that sort before it and the equal ones that stand before it
sortedIndex(s, i) ==
    1 + Cardinality({ j \in 1..Len(s) :
                          \/ localeCompare(s[j][1], s[i][1]) < 0
                          \/ (localeCompare(s[j][1], s[i][1]) = 0 /\ j < i) })

sortPairs(s) ==
    [k \in 1..Len(s) |-> s[CHOOSE i \in 1..Len(s) : sortedIndex(s, i) = k]]

\* src/dist/utils/antigravity-accounts.js: the accounts file is absent
\* (missing, unreadable or not JSON) or holds accounts and activeIndex
getActiveAntigravityAccount(file) ==
    IF ~IsDefined(file) THEN undefined
    ELSE LET data == Val(file)
             activeIndex == IF IsDefined(data.activeIndex)
                            THEN Val(data.activeIndex) ELSE 0
         IN  IF Len(data.accounts) = 0 THEN undefined
             ELSE IF activeIndex < 0 \/ activeIndex >= Len(data.accounts)
             THEN undefined
             ELSE Some(data.accounts[activeIndex + 1])

\* an answer whose text is read when the status is not ok
TextResponse(status, text, body) ==
    [kind |-> "response", status |-> status, text |-> text, body |-> body]
NoAnswer == [kind |-> "rejects", status |-> 0, text |-> "", body |-> undefined]

\* refreshAntigravityToken up to the access token
refreshAntigravityToken(response) ==
    IF response.kind = "rejects" THEN Threw(FetchFailed)
    ELSE IF ~ok(response.status)
    THEN IF response.text = "invalid_grant" THEN Threw("invalid_grant")
         ELSE Threw("Token refresh failed: " \o ToString(response.status)
                        \o " " \o response.text)
    ELSE IF ~IsDefined(response.body) THEN Threw(JsonSyntaxError)
    ELSE Returned(Val(response.body).access_token)

\* src/src/providers/antigravity.ts
CloudCodeModel(key, displayName, quotaInfo) ==
    [key |-> key, displayName |-> displayName, quotaInfo |-> quotaInfo]

QuotaInfo(remainingFraction, resetTime) ==
    [remainingFraction |-> remainingFraction, resetTime |-> resetTime]

CloudCodeBodies ==
    { [models |-> <<>>],
      [models |->
           << CloudCodeModel("gpt-oss-120b", undefined, undefined),
              CloudCodeModel("claude-sonnet-4", Some("Claude Sonnet 4"),
                             Some(QuotaInfo(Some(Frac(1, 5)),
                                            Some("2023-01-16T16:00:00Z")))),
              CloudCodeModel("gemini-3-pro", Some("Gemini 3 Pro"),
                             Some(QuotaInfo(Some(Frac(4, 5)),
                                            Some("soon")))) >>],
      [models |->
           << CloudCodeModel("gemini-3-pro", Some("Gemini 3 Pro"),
                             Some(QuotaInfo(Some(Frac(1, 2)),
                                            Some("2023-01-16T12:00:00Z")))) >>] }

EndpointFailures ==
    {NoAnswer, TextResponse(401, "", undefined),
     TextResponse(403, "denied", undefined),
     TextResponse(500, "oops", undefined), TextResponse(200, "", undefined)}

EndpointAnswers ==
    EndpointFailures
        \cup { TextResponse(200, "", Some(b)) : b \in CloudCodeBodies }

RefreshAnswers ==
    {NoAnswer, TextResponse(400, "invalid_grant", undefined),
     TextResponse(500, "oops", undefined),
     TextResponse(200, "", Some([access_token |-> "ya29"]))}

\* the answers of the token endpoint and of the three Cloud Code endpoints;
\* a request that is never sent is given the first answer of all
AntigravityUpstreams(refreshes, fetches) ==
    { u \in [refresh : RefreshAnswers,
             endpoints : [1..3 -> EndpointAnswers]] :
          /\ ~refreshes => u.refresh = NoAnswer
          /\ (~fetches \/ (refreshes /\ u.refresh.status # 200))
                 => \A i \in 1..3 : u.endpoints[i] = NoAnswer
          /\ \A i \in 1..2 :
                 /\ u.endpoints[i] \notin EndpointFailures
                        => \A j \in (i + 1)..3 : u.endpoints[j] = NoAnswer
                 \* the endpoints tried first fail in two ways
                 /\ u.endpoints[i] \in EndpointFailures
                        => u.endpoints[i].status \in {0, 401} }

fetchQuotaFromEndpoint(response) ==
    IF response.kind = "rejects" THEN Threw(FetchFailed)
    ELSE IF response.status = 401 THEN Threw("invalid_grant")
    ELSE IF response.status = 403
    THEN Threw("forbidden: " \o statusText(response.status) \o " - "
                   \o response.text)
    ELSE IF ~ok(response.status)
    THEN Threw("HTTP " \o ToString(response.status) \o ": " \o response.text)
    ELSE IF ~IsDefined(response.body) THEN Threw(JsonSyntaxError)
    ELSE Returned(Val(response.body).models)

CLOUDCODE_BASE_URLS ==
    << "https://daily-cloudcode-pa.googleapis.com",
       "https://cloudcode-pa.googleapis.com",
       "https://daily-cloudcode-pa.sandbox.googleapis.com" >>

\* a faulty loop that keeps the first error: lastError ??= error
fetchQuota_firstError(endpoints, i) ==
    IF \A k \in i..Len(endpoints) : fetchQuotaFromEndpoint(endpoints[k]).threw
    THEN fetchQuotaFromEndpoint(endpoints[i])
    ELSE fetchQuotaFromEndpoint(
             endpoints[CHOOSE k \in i..Len(endpoints) :
                           /\ ~fetchQuotaFromEndpoint(endpoints[k]).threw
                           /\ \A j \in i..(k - 1) :
                                  fetchQuotaFromEndpoint(endpoints[j]).threw])

\* the first endpoint from i on that answers, or the last error
RECURSIVE fetchQuota(_, _)
fetchQuota(endpoints, i) ==
    IF i = Len(endpoints)
           \/ ~fetchQuotaFromEndpoint(endpoints[i]).threw
    THEN fetchQuotaFromEndpoint(endpoints[i])
    ELSE fetchQuota(endpoints, i + 1)

\* the base URLs the loop of fetchQuota passes to fetchQuotaFromEndpoint,
\* from the i-th on, in the order of the requests
RECURSIVE fetched(_, _)
fetched(endpoints, i) ==
    IF i = Len(endpoints)
           \/ ~fetchQuotaFromEndpoint(endpoints[i]).threw
    THEN << CLOUDCODE_BASE_URLS[i] >>
    ELSE << CLOUDCODE_BASE_URLS[i] >> \o fetched(endpoints, i + 1)

\* the Date of a reset time, given what new Date and parseFloat make of it
resetDateOf(date, epochSeconds) ==
    IF ~IsNaN(date) THEN Some(date.n)
    ELSE IF ~IsNaN(epochSeconds) THEN Some(Seconds(epochSeconds.n))
    ELSE undefined

parseResetTime(resetTime) ==
    resetDateOf(DateParse(resetTime), parseInt(resetTime))

remainingPercentOf(model) ==
    NumMul(IF IsDefined(model.quotaInfo)
                  /\ IsDefined(Val(model.quotaInfo).remainingFraction)
           THEN Val(Val(model.quotaInfo).remainingFraction)
           ELSE Num(1),
           Num(100))

resetTimeOf(model) ==
    IF IsDefined(model.quotaInfo) THEN Val(model.quotaInfo).resetTime
    ELSE undefined

\* if (!earliestReset || (resetDate && resetDate < earliestReset))
\*     earliestReset = resetDate
earlierReset(earliestReset, resetDate) ==
    IF ~IsDefined(earliestReset)
           \/ (IsDefined(resetDate) /\ Val(resetDate) < Val(earliestReset))
    THEN resetDate
    ELSE earliestReset

\* one turn of the loop over the models
widened(before, remainingPercent, resetTime) ==
    [minRemainingPercent |->
         NumMin(before.minRemainingPercent, remainingPercent),
     maxRemainingPercent |->
         NumMax(before.maxRemainingPercent, remainingPercent),
     earliestReset |->
         IF Truthy(resetTime)
         THEN earlierReset(before.earliestReset,
                           parseResetTime(Val(resetTime)))
         ELSE before.earliestReset]

\* minRemainingPercent, maxRemainingPercent and earliestReset after the
\* first i models
RECURSIVE quotaRange(_, _)
quotaRange(models, i) ==
    IF i = 0
    THEN [minRemainingPercent |-> Num(100), maxRemainingPercent |-> Num(100),
          earliestReset |-> undefined]
    ELSE widened(quotaRange(models, i - 1), remainingPercentOf(models[i]),
                 resetTimeOf(models[i]))

subRowWindow(utilization, remainingPercent, resetTime) ==
    UsageWindow(utilization, Num(100), remainingPercent, utilization,
                IF Truthy(resetTime) THEN parseResetTime(Val(resetTime))
                ELSE undefined)

subRowOf(model) ==
    [label |-> IF IsDefined(model.displayName) THEN Val(model.displayName)
               ELSE model.key,
     window |-> subRowWindow(NumSub(Num(100), remainingPercentOf(model)),
                             remainingPercentOf(model), resetTimeOf(model))]

\* the items of a list of <<k, item>> pairs
items(pairs) == [i \in 1..Len(pairs) |-> pairs[i][2]]

rangeWindow(minUtilization, maxUtilization, remaining, earliestReset) ==
    [UsageWindow(maxUtilization, Num(100), remaining, maxUtilization,
                 earliestReset)
        EXCEPT !.minUtilization = Some(minUtilization),
               !.maxUtilization = Some(maxUtilization)]

primaryOf(range) ==
    rangeWindow(NumSub(Num(100), range.maxRemainingPercent),
                NumSub(Num(100), range.minRemainingPercent),
                range.minRemainingPercent, range.earliestReset)

parseResponse(models) ==
    LET displayName == "Antigravity"
    IN  IF Len(models) = 0
        THEN Failure(displayName, "No model configs found")
        ELSE ProviderUsage(
                 displayName,
                 Some(primaryOf(quotaRange(models, Len(models)))),
                 undefined, undefined,
                 Some(items(sortPairs(
                     [i \in 1..Len(models) |->
                         <<subRowOf(models[i]).label,
                           subRowOf(models[i])>>]))))

\* try { return parseResponse(await fetchQuota()) } catch ...
quotaOrError(displayName, quota) ==
    catchAsError(displayName,
                 IF quota.threw THEN quota
                 ELSE Returned(parseResponse(Val(quota.value))))

refreshError(displayName, message) ==
    Failure(displayName,
            IF message = "invalid_grant"
            THEN "Antigravity refresh token invalid. Please re-authorize."
            ELSE "Failed to refresh token: " \o message)

\* fetchUsage once the account is found, given whether the cached token
\* is still valid and how the refresh ends
withAccount(displayName, valid, access, refreshed, quota) ==
    IF valid /\ ~Truthy(access)
    THEN Fulfilled(Failure(displayName, "Antigravity access token missing"))
    ELSE IF ~valid /\ refreshed.threw
    THEN Fulfilled(refreshError(displayName, refreshed.message))
    ELSE quotaOrError(displayName, quota)

AntigravityProvider(auth_, file, response, t) ==
    LET displayName == "Antigravity"
        expiresAt == IF IsDefined(auth_["antigravity"])
                     THEN Val(auth_["antigravity"]).expires ELSE 0
    IN  IF ~IsDefined(getActiveAntigravityAccount(file))
        THEN Fulfilled(Failure(
                 displayName,
                 "No Antigravity account found in antigravity-accounts.json"))
        ELSE withAccount(displayName, expiresAt # 0 /\ expiresAt > t,
                         accessOf(auth_, "antigravity"),
                         refreshAntigravityToken(response.refresh),
                         fetchQuota(response.endpoints, 1))

\* The requests fetchUsage sends, in the order it sends them: the refresh
\* with its refresh token, the quota requests with their access token.
TokenRequest(refreshToken) ==
    [to |-> "https://oauth2.googleapis.com/token", token |-> refreshToken]

QuotaRequest(baseUrl, accessToken) ==
    [to |-> baseUrl, token |-> accessToken]

quotaRequests(accessToken, urls) ==
    [k \in 1..Len(urls) |-> QuotaRequest(urls[k], accessToken)]

\* a faulty fetchUsage that always refreshes with the account's token
requests_accountToken(auth_, file, response, t) ==
    IF ~IsDefined(getActiveAntigravityAccount(file)) \/ auth_ = null THEN <<>>
    ELSE IF /\ IsDefined(auth_["antigravity"])
            /\ Val(auth_["antigravity"]).expires # 0
            /\ Val(auth_["antigravity"]).expires > t
    THEN IF Val(auth_["antigravity"]).access = "" THEN <<>>
         ELSE quotaRequests(Val(auth_["antigravity"]).access,
                            fetched(response.endpoints, 1))
    ELSE << TokenRequest(Val(getActiveAntigravityAccount(file)).refreshToken) >>
             \o IF refreshAntigravityToken(response.refresh).threw THEN <<>>
                ELSE quotaRequests(
                         Val(refreshAntigravityToken(response.refresh).value),
                         fetched(response.endpoints, 1))

requests(auth_, file, response, t) ==
    IF ~IsDefined(getActiveAntigravityAccount(file)) \/ auth_ = null THEN <<>>
    ELSE IF /\ IsDefined(auth_["antigravity"])
            /\ Val(auth_["antigravity"]).expires # 0
            /\ Val(auth_["antigravity"]).expires > t
    THEN IF Val(auth_["antigravity"]).access = "" THEN <<>>
         ELSE quotaRequests(Val(auth_["antigravity"]).access,
                            fetched(response.endpoints, 1))
    ELSE << TokenRequest(
                IF /\ IsDefined(auth_["antigravity"])
                   /\ Val(auth_["antigravity"]).refresh # ""
                THEN Val(auth_["antigravity"]).refresh
                ELSE Val(getActiveAntigravityAccount(file)).refreshToken) >>
             \o IF refreshAntigravityToken(response.refresh).threw THEN <<>>
                ELSE quotaRequests(
                         Val(refreshAntigravityToken(response.refresh).value),
                         fetched(response.endpoints, 1))

-----------------------------------------------------------------------------
(* The orchestrator, main() of src/dist/index.js.  providers.map calls     *)
(* every fetchUsage in one synchronous step; an adapter runs up to its     *)
(* first await inside that step, so an adapter that returns before it      *)
(* awaits anything has a settled promise when the step ends.  The adapters *)
(* share no state, so the steps of one between its awaits are not seen by  *)
(* another and each adapter settles in one step, in any order.             *)

\* const providers = [...], by displayName
providers ==
    << "Claude", "Codex (OpenAI)", "Kimi", "Z.AI", "OpenCode", "OpenCode Zen",
       "Gemini CLI", "OpenRouter", "MiniMax", "Antigravity" >>

\* the key of auth.json an adapter reads before its first await
tokenKey ==
    [i \in {1, 2, 3, 4, 5, 8, 9} |->
        CASE i = 1 -> "anthropic"
          [] i = 2 -> "openai"
          [] i = 3 -> "kimi-for-coding"
          [] i = 4 -> "zai-coding-plan"
          [] i = 5 -> "opencode"
          [] i = 8 -> "openrouter"
          [] i = 9 -> "minimax-coding-plan"]

tokenOf(i, auth_) ==
    IF i \in {1, 2} THEN accessOf(auth_, tokenKey[i])
    ELSE keyOf(auth_, tokenKey[i])

\* the adapter reads a key of auth outside its try block: of a null auth
\* the read throws and the promise of fetchUsage rejects
throwsOnNull(i, auth_, file) ==
    /\ auth_ = null
    /\ \/ i \in DOMAIN tokenKey
       \/ i = 10 /\ IsDefined(getActiveAntigravityAccount(file))

\* the adapter settles in the step that calls it
returnsAtOnce(i, auth_) ==
    i \in DOMAIN tokenKey /\ (auth_ = null \/ ~Truthy(tokenOf(i, auth_)))

\* getAccounts of the Gemini adapter
getAccounts(file) == IF IsDefined(file) THEN Val(file).accounts ELSE <<>>

\* whether the Antigravity adapter asks for a new access token, and whether
\* it gets as far as the Cloud Code endpoints
refreshesToken(auth_, file, t) ==
    /\ IsDefined(getActiveAntigravityAccount(file))
    /\ auth_ # null
    /\ ~(IsDefined(auth_["antigravity"])
            /\ Val(auth_["antigravity"]).expires # 0
            /\ Val(auth_["antigravity"]).expires > t)

fetchesQuota(auth_, file, t) ==
    /\ IsDefined(getActiveAntigravityAccount(file))
    /\ auth_ # null
    /\ (refreshesToken(auth_, file, t)
            \/ Truthy(accessOf(auth_, "antigravity")))

\* what the outside can answer provider i
Upstreams(i, auth_, file, t) ==
    CASE i = 1 -> Responses(ClaudeBodies)
      [] i = 2 -> Responses(CodexBodies)
      [] i = 3 -> Responses(KimiBodies)
      [] i = 4 -> Responses(ZaiBodies)
      [] i = 5 -> Responses(OpenCodeBodies)
      [] i = 6 -> OpenCodeZenUpstreams
      [] i = 7 -> GeminiUpstreams(getAccounts(file))
      [] i = 8 -> OpenRouterUpstreams
      [] i = 9 -> Responses(MiniMaxBodies)
      [] i = 10 -> AntigravityUpstreams(refreshesToken(auth_, file, t),
                                        fetchesQuota(auth_, file, t))

\* providers[i].fetchUsage(auth), given what the outside answers
fetchUsage(i, auth_, file, response, t) ==
    IF throwsOnNull(i, auth_, file) THEN Rejected
    ELSE
    CASE i = 1 -> ClaudeProvider(auth_, response, t)
      [] i = 2 -> CodexProvider(auth_, response, t)
      [] i = 3 -> KimiProvider(auth_, response, t)
      [] i = 4 -> ZaiProvider(auth_, response, t)
      [] i = 5 -> OpenCodeProvider(auth_, response, t)
      [] i = 6 -> OpenCodeZenProvider(auth_, response, t)
      [] i = 7 -> GeminiProvider(getAccounts(file), response, t)
      [] i = 8 -> OpenRouterProvider(auth_, response, t)
      [] i = 9 -> MiniMaxProvider(auth_, response, t)
      [] i = 10 -> AntigravityProvider(auth_, file, response, t)

Pending == [state |-> "pending", value |-> undefined]

HIDDEN_ERROR_CODES ==
    << "NO_ANTHROPIC_TOKEN", "NO_OPENROUTER_KEY", "NO_GEMINI_ACCOUNTS",
       "API_ENDPOINT_UNAVAILABLE", "TOKEN_REFRESH_FAILED", "HTTP_NOT_FOUND",
       "CONNECTION_REFUSED", "FETCH_FAILED" >>

\* Faulty variant: the error codes are not looked at
isValidResult_messageOnly(usage) ==
    IF ~Truthy(usage.error) THEN TRUE
    ELSE IF includes(Val(usage.error), "No Anthropic token") THEN FALSE
    ELSE IF includes(Val(usage.error), "No OpenRouter API key") THEN FALSE
    ELSE IF includes(Val(usage.error), "No Gemini accounts found") THEN FALSE
    ELSE IF includes(Val(usage.error), "API endpoint not available")
    THEN FALSE
    ELSE IF includes(Val(usage.error), "may be in development") THEN FALSE
    ELSE IF includes(Val(usage.error), "Token refresh failed") THEN FALSE
    ELSE IF includes(Val(usage.error), "HTTP 404") THEN FALSE
    ELSE IF includes(Val(usage.error), "fetch failed") THEN FALSE
    ELSE IF includes(Val(usage.error), "ECONNREFUSED") THEN FALSE
    ELSE TRUE

\* the callback of results.filter
isValidResult(usage) ==
    IF ~Truthy(usage.error) THEN TRUE
    ELSE IF Truthy(usage.errorCode)
               /\ \E k \in 1..Len(HIDDEN_ERROR_CODES) :
                      HIDDEN_ERROR_CODES[k] = Val(usage.errorCode)
    THEN FALSE
    ELSE IF includes(Val(usage.error), "No Anthropic token") THEN FALSE
    ELSE IF includes(Val(usage.error), "No OpenRouter API key") THEN FALSE
    ELSE IF includes(Val(usage.error), "No Gemini accounts found") THEN FALSE
    ELSE IF includes(Val(usage.error), "API endpoint not available")
    THEN FALSE
    ELSE IF includes(Val(usage.error), "may be in development") THEN FALSE
    ELSE IF includes(Val(usage.error), "Token refresh failed") THEN FALSE
    ELSE IF includes(Val(usage.error), "HTTP 404") THEN FALSE
    ELSE IF includes(Val(usage.error), "fetch failed") THEN FALSE
    ELSE IF includes(Val(usage.error), "ECONNREFUSED") THEN FALSE
    ELSE TRUE

\* each result paired with the name it is sorted by
byProvider(results) ==
    [i \in 1..Len(results) |-> <<results[i].provider, results[i]>>]

\* Faulty variant: a failed result takes the successful ones with it
validResults_allOrNothing(results) ==
    IF \E i \in 1..Len(results) : Truthy(results[i].error) THEN <<>>
    ELSE items(sortPairs(byProvider(results)))

\* results.filter(...).sort((a, b) => a.provider.localeCompare(b.provider))
validResults(results) ==
    items(sortPairs(byProvider(SelectSeq(results, isValidResult))))

\* formatSubRow(providerName, subRow)
formatSubRow(providerName, subRow, t) ==
    << Cell("  <corner> " \o subRow.label, getProviderColor(providerName)),
       Cell(formatWindow(Some(subRow.window), t), "plain"),
       Cell("", "plain"), Cell("", "plain"), Cell("", "plain") >>

\* the rows the loop over validResults pushes for one result
rowsOf(usage, showAntigravityDetails, t) ==
    <<formatProviderRow(usage, t)>>
        \o (IF showAntigravityDetails /\ IsDefined(usage.subRows)
            THEN [k \in 1..Len(Val(usage.subRows)) |->
                     formatSubRow(usage.provider, Val(usage.subRows)[k], t)]
            ELSE <<>>)

RECURSIVE rowsOfAll(_, _, _)
rowsOfAll(results, showAntigravityDetails, t) ==
    IF Len(results) = 0 THEN <<>>
    ELSE rowsOf(results[1], showAntigravityDetails, t)
             \o rowsOfAll(Tail(results), showAntigravityDetails, t)

\* A call of a formatter: the function and the slot of the result it is
\* applied to (index k of subRows, 0 elsewhere)
Call(fn, slot, index) == [fn |-> fn, slot |-> slot, index |-> index]

\* Faulty variant: the windows are formatted before usage.error is tested
callsOfRow_formatFirst(usage) ==
    << Call("getProviderColor", "provider", 0),
       Call("formatWindow", "primaryWindow", 0),
       Call("formatWindow", "secondaryWindow", 0),
       Call("formatWindow", "tertiaryWindow", 0) >>
        \o (IF Truthy(usage.error) THEN <<>>
            ELSE << IF usage.provider = "Z.AI"
                    THEN Call("calculateMonthlyPace", "tertiaryWindow", 0)
                    ELSE Call("calculatePace", "secondaryWindow", 0),
                    Call("getPaceColor", "pace", 0) >>)

\* the functions formatProviderRow(usage) calls, in the order of the calls
callsOfRow(usage) ==
    <<Call("getProviderColor", "provider", 0)>>
        \o (IF Truthy(usage.error) THEN <<>>
            ELSE << Call("formatWindow", "primaryWindow", 0),
                    Call("formatWindow", "secondaryWindow", 0),
                    Call("formatWindow", "tertiaryWindow", 0),
                    IF usage.provider = "Z.AI"
                    THEN Call("calculateMonthlyPace", "tertiaryWindow", 0)
                    ELSE Call("calculatePace", "secondaryWindow", 0),
                    Call("getPaceColor", "pace", 0) >>)

\* the functions the loop over validResults calls for one result:
\* formatProviderRow, then formatSubRow for each sub-row that is asked for
callsOf(usage, showAntigravityDetails) ==
    callsOfRow(usage)
        \o (IF showAntigravityDetails /\ IsDefined(usage.subRows)
            THEN [j \in 1..(2 * Len(Val(usage.subRows))) |->
                     IF j % 2 = 1 THEN Call("getProviderColor", "provider", 0)
                     ELSE Call("formatWindow", "subRows", j \div 2)]
            ELSE <<>>)

\* Results handed to the filter: the messages the adapters return and the
\* connection error of the runtime, with no error code, with each code of
\* the ErrorCode type and with a code that is not of the type
ErrorMessages ==
    { "No Anthropic token found in auth.json",
      "No OpenRouter API key found in auth.json",
      "No Kimi API key found in auth.json",
      "No Gemini accounts found. Check ~/.config/opencode/antigravity-accounts.json",
      EndpointUnavailable,
      "Account proj-a: Token refresh failed: HTTP 400",
      "HTTP 404: Not Found",
      "HTTP 500: Internal Server Error",
      FetchFailed,
      "connect ECONNREFUSED 127.0.0.1:443",
      "No model configs found" }

FilterInputs ==
    { [ProviderUsage("Kimi", undefined, undefined, undefined, undefined)
          EXCEPT !.error = e, !.errorCode = c] :
          e \in {undefined, Some("")} \cup { Some(m) : m \in ErrorMessages },
          c \in {undefined, Some(""), Some("RATE_LIMITED")}
                    \cup { Some(HIDDEN_ERROR_CODES[k]) :
                               k \in 1..Len(HIDDEN_ERROR_CODES) } }

\* the filter and the loop of main() on a single result: the cells of the
\* row that is pushed, none when the result is filtered out
FilterResults ==
    /\ op = "idle"
    /\ ~IsDefined(window)
    /\ \E usage \in FilterInputs :
           /\ arg' = Some(usage)
           /\ row' = IF Len(validResults(<<usage>>)) = 0 THEN <<>>
                     ELSE rowsOfAll(validResults(<<usage>>), FALSE, now)[1]
    /\ op' = "filter"
    /\ out' = ""
    /\ color' = ""
    /\ parsed' = undefined
    /\ UNCHANGED <<now, window>>
    /\ UNCHANGED <<mainVars, callVars>>

Next ==
    \/ Tick
    \/ CalculatePace
    \/ CalculateFiveHourPace
    \/ CalculateMonthlyPace
    \/ CalculateMonthlyPaceTs
    \/ FormatWindow
    \/ FormatWindowTs
    \/ GetPaceColor
    \/ GetPaceColorTs
    \/ FormatProviderRow
    \/ FormatDuration
    \/ ParseISO8601
    \/ ParseEpochMs
    \/ FilterResults

Spec == Init /\ [][Next]_vars

-----------------------------------------------------------------------------
(* A call of formatWindow or of a pace calculator of                       *)
(* src/dist/utils/formatters.js, observed step by step: the call begins,   *)
(* evaluates Date.now() or new Date() where its code does, and returns.    *)
(* The wall clock may advance at any point in between.                     *)

ClockReaders ==
    {"formatWindow", "calculatePace", "calculateFiveHourPace",
     "calculateMonthlyPace"}

\* Faulty variant: the clock is read again wherever the time is used
clockReads_perUse(name, w) ==
    CASE name = "formatWindow" ->
             IF IsDefined(w) /\ IsDefined(Val(w).resetAt) THEN 1 ELSE 0
      [] name = "calculateMonthlyPace" ->
             IF ~IsDefined(w) \/ NumEq(Val(w).limit, Num(0)) THEN 0
             ELSE IF ~IsDefined(Val(w).resetAt) THEN 1
             ELSE 3
      [] OTHER ->
             IF ~IsDefined(w) \/ NumEq(Val(w).limit, Num(0)) THEN 0 ELSE 1

\* how often a call evaluates Date.now() or new Date(): formatWindow where
\* it computes resetText of a window with resetAt, a pace calculator in
\* "const now = new Date()" once it is past its first guard
clockReads(name, w) ==
    CASE name = "formatWindow" ->
             IF IsDefined(w) /\ IsDefined(Val(w).resetAt) THEN 1 ELSE 0
      [] OTHER ->
             IF ~IsDefined(w) \/ NumEq(Val(w).limit, Num(0)) THEN 0 ELSE 1

\* what the call returns for the reading t it made
returned(name, w, t) ==
    CASE name = "formatWindow" -> formatWindow(w, t)
      [] name = "calculatePace" -> calculatePace(w, t)
      [] name = "calculateFiveHourPace" -> calculateFiveHourPace(w, t)
      [] name = "calculateMonthlyPace" -> calculateMonthlyPace(w, t)

Begin ==
    /\ running = ""
    /\ \E name \in ClockReaders : running' = name
    /\ reads' = <<>>
    /\ op' = "idle"
    /\ out' = ""
    /\ UNCHANGED <<now, window, color, row, arg, parsed, mainVars>>

ReadClock ==
    /\ running # ""
    /\ Len(reads) < clockReads(running, window)
    /\ reads' = Append(reads, now)
    /\ UNCHANGED <<now, window, op, out, color, row, arg, parsed, running,
                   mainVars>>

\* the clock advances, before, during or after a call
Advance ==
    /\ \E h \in NowHours : Hours(h) > now /\ now' = Hours(h)
    /\ UNCHANGED <<window, op, out, color, row, arg, parsed, callVars,
                   mainVars>>

\* the call returns; a call that made no reading was given none
End ==
    /\ running # ""
    /\ Len(reads) >= clockReads(running, window)
    /\ out' = returned(running, window,
                       IF Len(reads) = 0 THEN 0 ELSE reads[Len(reads)])
    /\ op' = running
    /\ running' = ""
    /\ UNCHANGED <<now, window, color, row, arg, parsed, reads, mainVars>>

NextClock ==
    \/ Begin
    \/ ReadClock
    \/ Advance
    \/ End

SpecClock == Init /\ [][NextClock]_vars

\* Faulty variant: the join resolves with the first result that arrives
PromiseAll_race(promises) ==
    LET arrived == SelectSeq(promises, LAMBDA q : q.state = "fulfilled")
    IN  IF Len(arrived) = 0 THEN undefined
        ELSE Some([i \in 1..Len(arrived) |-> Val(arrived[i].value)])

\* Promise.all(promises): the array of the values once every promise is
\* fulfilled; it does not resolve while one is pending
PromiseAll(promises) ==
    IF \A i \in 1..Len(promises) : promises[i].state = "fulfilled"
    THEN Some([i \in 1..Len(promises) |-> Val(promises[i].value)])
    ELSE undefined

\* Promise.all(promises) rejects as soon as one of the promises rejects
PromiseAllRejects(promises) ==
    \E i \in 1..Len(promises) : promises[i].state = "rejected"

\* auth.json: an entry holds an API key or OAuth tokens; a string that is
\* not there is "", an expiry that is not there is 0
AuthKeys ==
    {"anthropic", "openai", "kimi-for-coding", "zai-coding-plan", "opencode",
     "openrouter", "minimax-coding-plan", "antigravity"}

ApiKey(key) == [key |-> key, access |-> "", refresh |-> "", expires |-> 0]
OAuth(access, refresh, expires) ==
    [key |-> "", access |-> access, refresh |-> refresh, expires |-> expires]

NoAuth == [k \in AuthKeys |-> undefined]

AccountsFile(accounts, activeIndex) ==
    Some([accounts |-> accounts, activeIndex |-> activeIndex])

FirstAccount == Account("1//rt-a", Some("proj-a"), "a@example.com")
SecondAccount == Account("1//rt-b", undefined, "b@example.com")

\* What main() finds on the machine: auth.json (absent when it cannot be
\* loaded) and the accounts file.  Each environment gives credentials to a
\* few providers and leaves the others without; in one auth.json holds the
\* JSON text null, which JSON.parse accepts.
Environments ==
    { [auth |-> undefined, accountsFile |-> undefined],
      [auth |-> Some(null), accountsFile |-> undefined],
      [auth |-> Some(NoAuth), accountsFile |-> undefined],
      [auth |-> Some([NoAuth EXCEPT
                         !["anthropic"] = Some(OAuth("sk-ant", "", 0)),
                         !["zai-coding-plan"] = Some(ApiKey(""))]),
       accountsFile |-> undefined],
      [auth |-> Some([NoAuth EXCEPT
                         !["openai"] = Some(OAuth("eyJ", "", 0)),
                         !["kimi-for-coding"] = Some(ApiKey("sk-kimi"))]),
       accountsFile |-> undefined],
      [auth |-> Some([NoAuth EXCEPT
                         !["zai-coding-plan"] = Some(ApiKey("zai-key")),
                         !["opencode"] = Some(ApiKey("oc-key"))]),
       accountsFile |-> undefined],
      [auth |-> Some([NoAuth EXCEPT
                         !["openrouter"] = Some(ApiKey("sk-or")),
                         !["minimax-coding-plan"] = Some(ApiKey("mm-key"))]),
       accountsFile |-> undefined],
      [auth |-> Some(NoAuth),
       accountsFile |-> AccountsFile(<<FirstAccount, SecondAccount>>,
                                     Some(1))],
      [auth |-> Some([NoAuth EXCEPT
                         !["antigravity"] =
                             Some(OAuth("ya29", "1//rt-a", Hours(400)))]),
       accountsFile |-> AccountsFile(<<FirstAccount>>, undefined)],
      [auth |-> Some([NoAuth EXCEPT
                         !["antigravity"] =
                             Some(OAuth("", "1//rt-a", Hours(400)))]),
       accountsFile |-> AccountsFile(<<FirstAccount>>, undefined)],
      [auth |-> Some([NoAuth EXCEPT
                         !["antigravity"] =
                             Some(OAuth("ya29", "1//rt-a", Hours(6)))]),
       accountsFile |-> AccountsFile(<<FirstAccount>>, Some(3))],
      [auth |-> Some([NoAuth EXCEPT
                         !["antigravity"] =
                             Some(OAuth("ya29", "1//rt-auth", Hours(6)))]),
       accountsFile |-> AccountsFile(<<FirstAccount>>, undefined)] }

InitMain ==
    /\ now = Hours(372)
    /\ window = undefined
    /\ op = "idle"
    /\ out = ""
    /\ color = ""
    /\ row = <<>>
    /\ arg = undefined
    /\ parsed = undefined
    /\ pc = "start"
    /\ argv \in [showAntigravityDetails : BOOLEAN, showHelp : BOOLEAN]
    /\ \E e \in Environments :
           /\ auth = e.auth
           /\ accountsFile = e.accountsFile
    /\ upstream = <<>>
    /\ promise = <<>>
    /\ table = <<>>
    /\ calls = <<>>
    /\ exitCode = undefined
    /\ running = ""
    /\ reads = <<>>

formatterVars == <<now, window, op, out, color, row, arg, parsed>>

\* if (showHelp) { printHelp(); process.exit(0); }
PrintHelp ==
    /\ pc = "start"
    /\ argv.showHelp
    /\ pc' = "exit"
    /\ exitCode' = Some(0)
    /\ UNCHANGED <<formatterVars, callVars, argv, auth, accountsFile, upstream,
                   promise, table, calls>>

\* loadAuthConfig() fails: process.exit(1)
AuthMissing ==
    /\ pc = "start"
    /\ ~argv.showHelp
    /\ ~IsDefined(auth)
    /\ pc' = "exit"
    /\ exitCode' = Some(1)
    /\ UNCHANGED <<formatterVars, callVars, argv, auth, accountsFile, upstream,
                   promise, table, calls>>

\* providers.map((provider) => provider.fetchUsage(auth)): every adapter is
\* called; one that returns before its first await is settled already
Launch ==
    /\ pc = "start"
    /\ ~argv.showHelp
    /\ IsDefined(auth)
    /\ promise' =
           [i \in 1..Len(providers) |->
               IF returnsAtOnce(i, Val(auth))
               THEN fetchUsage(i, Val(auth), accountsFile,
                               CHOOSE u \in Upstreams(i, Val(auth), accountsFile,
                                                     now) : TRUE,
                               now)
               ELSE Pending]
    /\ upstream' = [i \in 1..Len(providers) |-> undefined]
    /\ pc' = "awaiting"
    /\ UNCHANGED <<formatterVars, callVars, argv, auth, accountsFile, table, calls,
                   exitCode>>

\* the outside answers adapter i, which runs to its return
Settle(i) ==
    /\ pc = "awaiting"
    /\ ~PromiseAllRejects(promise)
    /\ promise[i].state = "pending"
    /\ \E u \in Upstreams(i, Val(auth), accountsFile, now) :
           /\ upstream' = [upstream EXCEPT ![i] = Some(u)]
           /\ promise' = [promise EXCEPT
                             ![i] = fetchUsage(i, Val(auth), accountsFile, u,
                                               now)]
    /\ UNCHANGED <<formatterVars, callVars, pc, argv, auth, accountsFile, table, calls,
                   exitCode>>

\* the continuation of await Promise.all(...): filter, sort, one row per
\* result and the sub-rows that are asked for
\* for (const usage of validResults): the rows pushed, and the calls made
\* for each result
callsOfAll(results, showAntigravityDetails) ==
    [k \in 1..Len(results) |-> callsOf(results[k], showAntigravityDetails)]

pushRows(valid) ==
    /\ table' = rowsOfAll(valid, argv.showAntigravityDetails, now)
    /\ calls' = callsOfAll(valid, argv.showAntigravityDetails)

Render ==
    /\ pc = "awaiting"
    /\ IsDefined(PromiseAll(promise))
    /\ pushRows(validResults(Val(PromiseAll(promise))))
    /\ pc' = "rendered"
    /\ UNCHANGED <<formatterVars, callVars, argv, auth, accountsFile, upstream,
                   promise, exitCode>>

\* Faulty variant: a failed adapter makes the process fail
Return_failOnError ==
    /\ pc = "rendered"
    /\ pc' = "returned"
    /\ exitCode' = IF \E i \in 1..Len(promise) :
                          Truthy(Val(promise[i].value).error)
                   THEN Some(1)
                   ELSE Some(0)
    /\ UNCHANGED <<formatterVars, callVars, argv, auth, accountsFile, upstream,
                   promise, table, calls>>

\* main() prints the legend and the unsupported providers and returns; with
\* nothing left to run the process ends with exit code 0
Return ==
    /\ pc = "rendered"
    /\ pc' = "returned"
    /\ exitCode' = Some(0)
    /\ UNCHANGED <<formatterVars, callVars, argv, auth, accountsFile, upstream,
                   promise, table, calls>>

\* await Promise.all(...) throws, main() rejects:
\* main().catch((error) => { console.error(...); process.exit(1); }).
\* The rejection is handled before any answer from outside arrives.
Fatal ==
    /\ pc = "awaiting"
    /\ PromiseAllRejects(promise)
    /\ pc' = "exit"
    /\ exitCode' = Some(1)
    /\ UNCHANGED <<formatterVars, callVars, argv, auth, accountsFile, upstream,
                   promise, table, calls>>

NextMain ==
    \/ PrintHelp
    \/ AuthMissing
    \/ Launch
    \/ \E i \in 1..Len(providers) : Settle(i)
    \/ Render
    \/ Fatal
    \/ Return

\* A step of main() from its await to the printed table.  A step of NextMain
\* is one exactly when it is a Render step, and one is possible exactly
\* when Render is.
Rendering ==
    /\ pc = "awaiting"
    /\ IsDefined(PromiseAll(promise))
    /\ pc' = "rendered"

\* The event loop runs the continuation of an await whose promise has
\* settled: Render is not postponed for ever.
SpecMain == InitMain /\ [][NextMain]_vars /\ WF_pc(Rendering)

-----------------------------------------------------------------------------
(* The earlier build of the orchestrator, src/unnamed/part_002.  Its       *)
(* main() reads no command-line flag, filters by message only, does not    *)
(* sort and pushes the sub-rows of every result; loadAuthConfig, the       *)
(* providers, Promise.all, formatProviderRow and formatSubRow are those of *)
(* src/dist/index.js.                                                      *)

\* the callback of results.filter
isValidResultPart002(usage) ==
    IF ~Truthy(usage.error) THEN TRUE
    ELSE IF includes(Val(usage.error), "No Anthropic token") THEN FALSE
    ELSE IF includes(Val(usage.error), "No OpenRouter API key") THEN FALSE
    ELSE IF includes(Val(usage.error), "No Gemini accounts found") THEN FALSE
    ELSE IF includes(Val(usage.error), "API endpoint not available")
    THEN FALSE
    ELSE IF includes(Val(usage.error), "may be in development") THEN FALSE
    ELSE IF includes(Val(usage.error), "Token refresh failed") THEN FALSE
    ELSE IF includes(Val(usage.error), "HTTP 404") THEN FALSE
    ELSE IF includes(Val(usage.error), "fetch failed") THEN FALSE
    ELSE IF includes(Val(usage.error), "ECONNREFUSED") THEN FALSE
    ELSE TRUE

\* results.filter(...), in the order of the providers array
validResultsPart002(results) == SelectSeq(results, isValidResultPart002)

\* if (usage.subRows && usage.subRows.length > 0): every sub-row is pushed
pushRowsPart002(valid) ==
    /\ table' = rowsOfAll(valid, TRUE, now)
    /\ calls' = callsOfAll(valid, TRUE)

RenderPart002 ==
    /\ pc = "awaiting"
    /\ IsDefined(PromiseAll(promise))
    /\ pushRowsPart002(validResultsPart002(Val(PromiseAll(promise))))
    /\ pc' = "rendered"
    /\ UNCHANGED <<formatterVars, callVars, argv, auth, accountsFile, upstream,
                   promise, exitCode>>

\* the command lines without --help, which this main() would not notice
InitPart002 == InitMain /\ ~argv.showHelp

NextPart002 ==
    \/ AuthMissing
    \/ Launch
    \/ \E i \in 1..Len(providers) : Settle(i)
    \/ RenderPart002
    \/ Fatal
    \/ Return

SpecPart002 == InitPart002 /\ [][NextPart002]_vars /\ WF_pc(Rendering)

-----------------------------------------------------------------------------
(* Properties.  The quantities below are computed from the window and the  *)
(* clock alone, as the percentages of the limit and of the cycle.          *)

HasLimit == IsDefined(window) /\ ~NumEq(Val(window).limit, Num(0))
PositiveLimit == IsDefined(window) /\ NumLess(Num(0), Val(window).limit)
HasReset == IsDefined(window) /\ IsDefined(Val(window).resetAt)

\* how far into a cycle of the given length the clock stands
TimeElapsed(cycleMs) == cycleMs - (Val(Val(window).resetAt) - now)

UsedPercent == NumDiv(NumMul(Val(window).used, Num(100)), Val(window).limit)
ElapsedPercent(cycleMs) == NumMul(Frac(TimeElapsed(cycleMs), cycleMs), Num(100))

\* (used - expectedUsage) / limit * 100
Deviation(cycleMs) == NumSub(UsedPercent, ElapsedPercent(cycleMs))

OnTrackText == CheckMark \o " on track"
AheadText(dev) == UpArrow \o " " \o toFixed1(NumAbs(dev)) \o "% ahead"
BehindText(dev) == DownArrow \o " " \o toFixed1(NumAbs(dev)) \o "% behind"

\* the weekly and the five-hour calculator, each with its cycle length
CycleCalls ==
    { <<"calculatePace", totalWeekMs>>,
      <<"calculateFiveHourPace", totalFiveHourMs>> }

\* the call c has classified the window: limit > 0, a reset time, and the
\* clock strictly inside the cycle
Classified(c) ==
    /\ op = c[1]
    /\ PositiveLimit
    /\ HasReset
    /\ TimeElapsed(c[2]) > 0

\* C1: with limit > 0 and timeElapsed > 0 the weekly and five-hour
\* calculators answer "on track" if and only if |diffPercentage| < 5; a
\* deviation of exactly 5 is not on track, a deviation of 0 is.
C1_DeadBandExclusive ==
    \A c \in CycleCalls :
        Classified(c) =>
            /\ (out = OnTrackText)
                   <=> NumLess(NumAbs(Deviation(c[2])), Num(5))
            /\ NumEq(NumAbs(Deviation(c[2])), Num(5)) => out # OnTrackText
            /\ NumEq(Deviation(c[2]), Num(0)) => out = OnTrackText

C1_Witness ==
    /\ Classified(<<"calculatePace", totalWeekMs>>)
    /\ NumEq(Deviation(totalWeekMs), Num(5))
    /\ out = AheadText(Num(5))

\* C2: with limit > 0 and timeElapsed > 0 the result is one of the three
\* verdicts; outside the dead-band it is "ahead" exactly when used exceeds
\* (timeElapsed / cycle) * limit and "behind" exactly when used is below it,
\* and the number printed is the magnitude |used - expected| / limit * 100.
C2_ThreeVerdicts ==
    \A c \in CycleCalls :
        Classified(c) =>
            LET dev == Deviation(c[2])
                expectedUsage ==
                    NumMul(Frac(TimeElapsed(c[2]), c[2]), Val(window).limit)
                used == Val(window).used
            IN  /\ out \in {OnTrackText, AheadText(dev), BehindText(dev)}
                /\ ~NumLess(NumAbs(dev), Num(5)) =>
                       /\ (out = AheadText(dev)) <=> NumLess(expectedUsage, used)
                       /\ (out = BehindText(dev)) <=> NumLess(used, expectedUsage)

C2_Witness ==
    /\ Classified(<<"calculatePace", totalWeekMs>>)
    /\ NumLess(Deviation(totalWeekMs), Num(-5))
    /\ out = BehindText(Deviation(totalWeekMs))

\* C3: the weekly and five-hour calculators return "N/A" when the window is
\* absent or its limit is 0, whatever used, utilization and resetAt are, and
\* no result of theirs shows a division by zero (NaN or Infinity).
C3_NoLimitIsNA ==
    op \in {"calculatePace", "calculateFiveHourPace"} =>
        /\ ~HasLimit => out = "N/A"
        /\ ~includes(out, "NaN")
        /\ ~includes(out, "Infinity")

C3_Witness ==
    /\ op = "calculatePace"
    /\ IsDefined(window)
    /\ NumEq(Val(window).limit, Num(0))
    /\ NumLess(Num(0), Val(window).used)
    /\ HasReset
    /\ out = "N/A"

\* C4 as stated: without a reset time the readout prints the utilization
\* field.
C4_ReadoutIsUtilization ==
    (op = "calculatePace" /\ HasLimit /\ ~HasReset) =>
        out = toFixed1(Val(window).utilization) \o "% used"

\* C4 amended: without a reset time the weekly and five-hour calculators
\* print used / limit * 100 to one decimal, followed by "% used"; the
\* utilization field is not read.
C4_ReadoutIsUsedOverLimit ==
    (op \in {"calculatePace", "calculateFiveHourPace"} /\ HasLimit /\ ~HasReset)
        => out = toFixed1(UsedPercent) \o "% used"

C4_Witness ==
    /\ op = "calculatePace"
    /\ HasLimit
    /\ ~HasReset
    /\ ~NumEq(Val(window).utilization, UsedPercent)
    /\ out = toFixed1(UsedPercent) \o "% used"
    /\ out # toFixed1(Val(window).utilization) \o "% used"

\* C5: with limit # 0 and a reset time, the weekly and five-hour calculators
\* return "0% (just reset)" exactly when timeElapsed <= 0, and then give no
\* verdict.
C5_JustReset ==
    \A c \in CycleCalls :
        (op = c[1] /\ HasLimit /\ HasReset) =>
            /\ (out = "0% (just reset)") <=> TimeElapsed(c[2]) <= 0
            /\ TimeElapsed(c[2]) <= 0 =>
                   /\ ~includes(out, CheckMark)
                   /\ ~includes(out, UpArrow)
                   /\ ~includes(out, DownArrow)

C5_Witness ==
    /\ op = "calculatePace"
    /\ HasLimit
    /\ HasReset
    /\ TimeElapsed(totalWeekMs) = 0
    /\ out = "0% (just reset)"

startsWith(s, prefix) ==
    Len(prefix) <= Len(s) /\ SubSeq(s, 1, Len(prefix)) = prefix

StripMcp(s) == IF startsWith(s, "mcp: ") THEN SubSeq(s, 6, Len(s)) ELSE s

\* The one algorithm of section 4.3, for an optional window w at clock t
\* and a cycle length; "clamped" is the monthly variant's clamping of
\* timeElapsed into [0, cycleMs].
genericPace(w, t, cycleMs, clamped) ==
    IF ~IsDefined(w) THEN "N/A"
    ELSE IF NumEq(Val(w).limit, Num(0)) THEN "N/A"
    ELSE IF ~IsDefined(Val(w).resetAt)
    THEN toFixed1(NumDiv(NumMul(Val(w).used, Num(100)), Val(w).limit))
             \o "% used"
    ELSE LET raw == cycleMs - (Val(Val(w).resetAt) - t)
             elapsed == IF ~clamped THEN raw
                        ELSE IF raw < 0 THEN 0
                        ELSE IF raw > cycleMs THEN cycleMs
                        ELSE raw
             usedPct == NumDiv(NumMul(Val(w).used, Num(100)), Val(w).limit)
             dev == NumSub(usedPct, NumMul(Frac(elapsed, cycleMs), Num(100)))
             expected == NumMul(Frac(elapsed, cycleMs), Val(w).limit)
         IN  IF elapsed <= 0 THEN "0% (just reset)"
             ELSE IF NumLess(NumAbs(dev), Num(5)) THEN OnTrackText
             ELSE IF NumLess(expected, Val(w).used)
             THEN UpArrow \o " " \o toFixed1(dev) \o "% ahead"
             ELSE BehindText(dev)

C7_McpPrefix ==
    op \in {"calculateMonthlyPace", "calculateMonthlyPaceTs"} =>
        startsWith(out, "mcp: ")

InUnitInterval(f) == NumLeq(Num(0), f) /\ NumLeq(f, Num(1))

\* C8: whenever a monthly calculator classifies a window, the fraction of
\* the cycle it takes as elapsed lies in [0, 1].
C8_FractionInUnitInterval ==
    /\ (op = "calculateMonthlyPace" /\ HasLimit /\ HasReset) =>
           InUnitInterval(elapsedFraction(Val(Val(window).resetAt), now))
    /\ (op = "calculateMonthlyPaceTs" /\ HasLimit /\ HasReset
            /\ out # "mcp: 0% (just reset)") =>
           InUnitInterval(clampedFraction(Val(Val(window).resetAt), now))

SaysOnTrack(s) == includes(s, CheckMark)
SaysAhead(s) == includes(s, UpArrow)
SaysBehind(s) == includes(s, DownArrow)
Neutral(s) == ~SaysOnTrack(s) /\ ~SaysAhead(s) /\ ~SaysBehind(s)

\* C9: the colour of a pace calculator's result is red exactly when the
\* verdict is "ahead", green when it is "on track" or "behind", and a
\* neutral colour (gray or white) for "N/A", the static readout and "just
\* reset"; the row renderer paints the pace cell red exactly for "ahead",
\* green for "on track" and "behind", and never red or green otherwise.
C9_PaceColor ==
    /\ (op \in PaceOps /\ color # "") =>
           /\ color = "red" <=> SaysAhead(out)
           /\ color = "green" <=> (SaysOnTrack(out) \/ SaysBehind(out))
           /\ Neutral(out) => color \in {"gray", "white"}
           /\ Neutral(out) <=>
                  \/ includes(out, "N/A")
                  \/ includes(out, "0% (just reset)")
                  \/ out = toFixed1(UsedPercent) \o "% used"
                  \/ out = "mcp: " \o toFixed1(UsedPercent) \o "% used"
                  \/ out = "mcp: " \o toFixed1(Val(window).utilization) \o "%"
    /\ (op = "formatProviderRow" /\ row[5].text # "") =>
           /\ row[5].style = "red" <=> SaysAhead(row[5].text)
           /\ row[5].style = "green" <=>
                  (SaysOnTrack(row[5].text) \/ SaysBehind(row[5].text))
           /\ Neutral(row[5].text) => row[5].style = "white"

C9_Witness ==
    /\ op = "formatProviderRow"
    /\ SaysAhead(row[5].text)
    /\ row[5].style = "red"

\* the percentage text the window formatter is to print
PercentageText(win) ==
    IF IsDefined(win.minUtilization) /\ IsDefined(win.maxUtilization)
    THEN (IF toFixed1(Val(win.minUtilization)) = toFixed1(Val(win.maxUtilization))
          THEN toFixed1(Val(win.minUtilization)) \o "%"
          ELSE toFixed1(Val(win.minUtilization)) \o "%-"
                   \o toFixed1(Val(win.maxUtilization)) \o "%")
    ELSE toFixed1(win.utilization) \o "%"

endsWith(s, suffix) ==
    Len(suffix) <= Len(s)
        /\ SubSeq(s, Len(s) - Len(suffix) + 1, Len(s)) = suffix

\* C11: formatWindow returns "N/A" for an absent window and otherwise
\* "{percentageText} ({resetText})", where resetText is
\* formatDuration(resetAt - now) when resetAt is present, hence "now"
\* whenever resetAt <= now, and the literal "N/A" when resetAt is absent.
C11_WindowShape ==
    op \in {"formatWindow", "formatWindowTs"} =>
        IF ~IsDefined(window) THEN out = "N/A"
        ELSE LET win == Val(window)
                 percentageText ==
                     IF op = "formatWindow" THEN PercentageText(win)
                     ELSE toFixed1(win.utilization) \o "%"
                 resetText ==
                     IF IsDefined(win.resetAt)
                     THEN formatDuration(Val(win.resetAt) - now)
                     ELSE "N/A"
             IN  /\ out = percentageText \o " (" \o resetText \o ")"
                 /\ (IsDefined(win.resetAt) /\ Val(win.resetAt) <= now)
                        => endsWith(out, " (now)")
                 /\ ~IsDefined(win.resetAt) => endsWith(out, " (N/A)")

C11_Witness ==
    /\ op = "formatWindow"
    /\ HasReset
    /\ Val(Val(window).resetAt) = now
    /\ NumEq(Val(window).utilization, Dec(1234))
    /\ out = "12.3% (now)"

\* C12: formatDuration returns "now" for every delta <= 0, zero and the
\* negative ones alike, and for no delta > 0; a positive delta below one
\* minute gives "0m".
C12_NowIffNonPositive ==
    op = "formatDuration" =>
        /\ (out = "now") <=> (Val(arg) <= 0)
        /\ (0 < Val(arg) /\ Val(arg) < Seconds(60)) => out = "0m"

C12_Witness ==
    /\ op = "formatDuration"
    /\ Val(arg) = 0
    /\ out = "now"

\* C13: for a delta > 0 with M whole minutes, formatDuration returns
\* "{d}d {h}h {m}m" when d = M div 1440 > 0, else "{h}h {m}m" when
\* M div 60 > 0, else "{m}m", where h = (M div 60) mod 24 and m = M mod 60;
\* what is below the minute is dropped and zero units are printed.
C13_Decomposition ==
    (op = "formatDuration" /\ Val(arg) > 0) =>
        LET M == Val(arg) \div Seconds(60)
            d == M \div 1440
            h == (M \div 60) % 24
            m == M % 60
        IN  out = IF d > 0
                  THEN ToString(d) \o "d " \o ToString(h) \o "h "
                           \o ToString(m) \o "m"
                  ELSE IF M \div 60 > 0
                  THEN ToString(h) \o "h " \o ToString(m) \o "m"
                  ELSE ToString(m) \o "m"

C13_Witness ==
    /\ op = "formatDuration"
    /\ Val(arg) = Hours(2 * 24 + 3) + Seconds(4 * 60)
    /\ out = "2d 3h 4m"

\* C19: parseISO8601 and parseEpochMs return for every input; an
\* unparseable string ("not-a-date", the empty string, a month 13) and a
\* number that is not finite (NaN, an infinity) give the absent value, and
\* a result that is present is a valid, non-NaN timestamp.
C19_ParsersTotal ==
    /\ (op \in {"parseISO8601", "parseEpochMs"} /\ IsDefined(parsed)) =>
           IsFinite(Val(parsed))
    /\ op = "parseISO8601" =>
           /\ Val(arg) \in {"", "not-a-date", "2023-13-01T00:00:00Z"}
                  => parsed = undefined
           /\ Val(arg) = "2023-01-16T12:00:00Z"
                  => parsed = Some(Num(Hours(372)))
           /\ Val(arg) = "2023-01-16" => parsed = Some(Num(Hours(360)))
    /\ op = "parseEpochMs" =>
           /\ ~IsFinite(Val(arg)) => parsed = undefined
           /\ IsFinite(Val(arg)) => IsDefined(parsed)

C19_Witness ==
    /\ op = "parseISO8601"
    /\ Val(arg) = "not-a-date"
    /\ parsed = undefined

StringOps == PaceOps \cup {"formatWindow", "formatWindowTs", "formatDuration"}

\* C18: formatDuration, formatWindow, every pace calculator, getPaceColor
\* and both parsers return for every input, the degenerate ones included
\* (absent window, limit 0, delta <= 0, absent optional fields, resetAt in
\* the past): the formatters and calculators a non-empty string with no
\* undefined part, getPaceColor a colour name, the parsers a Date or the
\* absent value; none raises.
C18_Total ==
    /\ op \in StringOps =>
           /\ out # Raised
           /\ Len(out) > 0
           /\ ~includes(out, "undefined")
    /\ (op \in PaceOps /\ color # "") =>
           color \in {"green", "red", "gray", "white"}
    /\ op \in {"parseISO8601", "parseEpochMs"} =>
           \/ parsed = undefined
           \/ Val(parsed) \in [n : Int, d : Nat]
    /\ op = "formatProviderRow" =>
           \A i \in 1..Len(row) : row[i].text # Raised

C18_Witness ==
    /\ op = "formatWindowTs"
    /\ ~IsDefined(window)
    /\ out = "N/A"


-----------------------------------------------------------------------------
(* Properties of the adapters and of main().                               *)

Launched == pc \in {"awaiting", "rendered", "returned"}
Settled(i) == Launched /\ promise[i].state # "pending"
Result(i) == Val(promise[i].value)

\* a request that brought no usable body
failed(response) ==
    response.kind = "rejects" \/ ~ok(response.status)
        \/ ~IsDefined(response.body)

\* the outside left adapter i without usage data
FailedUpstream(i, u) ==
    CASE i \in {1, 2, 3, 4} -> failed(u)
      [] i = 5 -> failed(u) \/ Val(u.body).notFound
      [] i = 6 -> ~u.binary \/ ~IsDefined(u.stats)
      [] i = 7 -> \A k \in 1..Len(u) :
                      failed(u[k].refresh) \/ failed(u[k].quota)
      [] i = 8 -> failed(u.credits) \/ u.key.kind = "rejects"
                      \/ (ok(u.key.status) /\ ~IsDefined(u.key.body))
      [] i = 9 -> failed(u) \/ Val(u.body).status_code # 0
      [] i = 10 -> \/ (refreshesToken(Val(auth), accountsFile, now)
                          /\ failed(u.refresh))
                   \/ \A k \in 1..3 : failed(u.endpoints[k])

UsageFields ==
    {"provider", "primaryWindow", "secondaryWindow", "tertiaryWindow",
     "error", "errorCode", "subRows"}

\* adapter i settled by returning a ProviderUsage of its own
ReturnedUsage(i) ==
    /\ promise[i].state = "fulfilled"
    /\ DOMAIN Result(i) = UsageFields
    /\ Result(i).provider = providers[i]

ReportsFailure(i) ==
    (IsDefined(upstream[i]) /\ FailedUpstream(i, Val(upstream[i])))
        => Truthy(Result(i).error)

HasWindows(usage) ==
    \/ IsDefined(usage.primaryWindow)
    \/ IsDefined(usage.secondaryWindow)
    \/ IsDefined(usage.tertiaryWindow)
    \/ IsDefined(usage.subRows)

\* C15: a ProviderUsage returned by an adapter with error set carries no
\* primaryWindow, secondaryWindow, tertiaryWindow or subRows; none carries
\* both an error and usage windows.
C15_ErrorOrWindows ==
    \A i \in 1..Len(providers) :
        (Settled(i) /\ promise[i].state = "fulfilled"
                /\ IsDefined(Result(i).error))
            => ~HasWindows(Result(i))

\* the Antigravity adapter has returned windows and sub-rows, the Gemini
\* adapter an error after a request of its own
C15_Witness ==
    /\ Settled(10)
    /\ ~IsDefined(Result(10).error)
    /\ IsDefined(Result(10).primaryWindow)
    /\ IsDefined(Result(10).subRows)
    /\ Settled(7)
    /\ IsDefined(upstream[7])
    /\ Len(Val(upstream[7])) = 2
    /\ IsDefined(Result(7).error)
    /\ ~HasWindows(Result(7))

AllInvoked == DOMAIN promise = 1..Len(providers)
AllSettled == pc = "awaiting" /\ \A i \in 1..Len(providers) : Settled(i)
SomePending == \E i \in DOMAIN promise : promise[i].state = "pending"

\* C16: fetchUsage is invoked on every provider before any result is
\* awaited or has settled after an await; no row is rendered while an
\* adapter is pending; once every adapter has settled the table is
\* eventually rendered.
C16_FanOutFanIn ==
    /\ [](Launched => AllInvoked)
    /\ []((\E i \in DOMAIN upstream : IsDefined(upstream[i])) => AllInvoked)
    /\ []((pc = "rendered" \/ Len(table) > 0) => ~SomePending)
    /\ [][pc' = "rendered" => ~SomePending]_vars
    /\ (AllSettled ~> pc = "rendered")

\* rendered after adapters settled in an order other than the order of the
\* calls: rows are on the table and every adapter that awaited has an answer
C16_Witness ==
    /\ pc = "rendered"
    /\ Len(table) >= 3
    /\ \A i \in {6, 7, 10} : IsDefined(upstream[i])
    /\ IsDefined(upstream[3])

\* adapter i succeeded: it returned a result without error
Succeeded(i) == promise[i].state = "fulfilled" /\ ~Truthy(Result(i).error)

\* what adapter i returns when it alone is given its own answer
Alone(i) ==
    fetchUsage(i, Val(auth), accountsFile,
               IF IsDefined(upstream[i]) THEN Val(upstream[i])
               ELSE CHOOSE u \in Upstreams(i, Val(auth), accountsFile, now) :
                        TRUE,
               now)

HasRow(r) == \E k \in 1..Len(table) : table[k] = r

HiddenCodes ==
    {"NO_ANTHROPIC_TOKEN", "NO_OPENROUTER_KEY", "NO_GEMINI_ACCOUNTS",
     "API_ENDPOINT_UNAVAILABLE", "TOKEN_REFRESH_FAILED", "HTTP_NOT_FOUND",
     "CONNECTION_REFUSED", "FETCH_FAILED"}

HiddenPatterns ==
    {"No Anthropic token", "No OpenRouter API key", "No Gemini accounts found",
     "API endpoint not available", "may be in development",
     "Token refresh failed", "HTTP 404", "fetch failed", "ECONNREFUSED"}

Hidden(usage) ==
    \/ IsDefined(usage.errorCode) /\ Val(usage.errorCode) \in HiddenCodes
    \/ \E pattern \in HiddenPatterns : includes(Val(usage.error), pattern)

\* C20: a result without error (none, or the empty string) is always
\* rendered; a result with error is left out of the table if and only if
\* its errorCode is one of the hidden codes or its message contains one of
\* the hidden patterns; every other result with error is rendered as an
\* error row.
C20_Filtering ==
    op = "filter" =>
        LET usage == Val(arg)
        IN  /\ ~Truthy(usage.error)
                   => row # <<>> /\ row = formatProviderRow(usage, now)
            /\ Truthy(usage.error) =>
                   /\ (row = <<>>) <=> Hidden(usage)
                   /\ ~Hidden(usage) =>
                          /\ row[1].text = usage.provider
                          /\ row[2] = Cell(truncate(Val(usage.error), 20),
                                           "red")

\* a message that matches no pattern is hidden by its code alone
C20_Witness ==
    /\ op = "filter"
    /\ Val(arg).error = Some("HTTP 500: Internal Server Error")
    /\ Val(arg).errorCode = Some("FETCH_FAILED")
    /\ row = <<>>

-----------------------------------------------------------------------------
(* The table of a run of main().                                           *)

Rendered == pc \in {"rendered", "returned"}

\* the results that passed the filter, in the order of the row loop
Shown == validResults(Val(PromiseAll(promise)))

\* the number of sub-rows expanded under the row of a result
Expanded(usage) ==
    IF argv.showAntigravityDetails /\ IsDefined(usage.subRows)
    THEN Len(Val(usage.subRows))
    ELSE 0

\* the number of rows of the table above the row of the k-th result
RECURSIVE RowsAbove(_, _)
RowsAbove(valid, k) ==
    IF k = 1 THEN 0
    ELSE RowsAbove(valid, k - 1) + 1 + Expanded(valid[k - 1])

WindowFunctions ==
    {"formatWindow", "calculatePace", "calculateFiveHourPace",
     "calculateMonthlyPace"}

\* text is the error message cut to at most 20 characters
IsTruncated(text, message) ==
    /\ Len(text) <= 20
    /\ Len(message) <= 20 => text = message
    /\ Len(message) > 20 =>
           /\ SubSeq(text, 1, 17) = SubSeq(message, 1, 17)
           /\ SubSeq(text, 18, 20) = "..."

ErrorRowOnly(valid, k) ==
    LET r == table[RowsAbove(valid, k) + 1]
    IN  /\ \A c \in 1..Len(calls[k]) : calls[k][c].fn \notin WindowFunctions
        /\ Len(r) = 5
        /\ r[1].text = valid[k].provider
        /\ IsTruncated(r[2].text, Val(valid[k].error))
        /\ \A j \in 3..5 : r[j].text = ""

ErrorRowsOnly(valid) ==
    \A k \in 1..Len(valid) :
        Truthy(valid[k].error) => ErrorRowOnly(valid, k)

\* C21: for a result with error set that is rendered, neither formatWindow
\* nor a pace calculator is called on its windows or sub-rows, and its row
\* is the provider name, the error text cut to at most 20 characters and
\* three empty cells.
C21_ErrorRowOnly == Rendered => ErrorRowsOnly(Shown)

\* a table with the row of a failed result whose message is longer than 20
\* characters, next to a result whose windows were formatted
C21_WitnessOf(valid) ==
    /\ \E k \in 1..Len(valid) :
           /\ Truthy(valid[k].error)
           /\ Len(Val(valid[k].error)) > 20
           /\ Len(table[RowsAbove(valid, k) + 1][2].text) = 20
    /\ \E k \in 1..Len(valid) :
           /\ ~Truthy(valid[k].error)
           /\ \E c \in 1..Len(calls[k]) : calls[k][c].fn = "formatWindow"

C21_Witness == Rendered /\ C21_WitnessOf(Shown)

-----------------------------------------------------------------------------
\* loadAuthConfig() was called and found no auth.json it could parse
LoadFailed == ~argv.showHelp /\ ~IsDefined(auth)

\* a promise of an adapter rejected: the error leaves main()
Escaped == promise # <<>> /\ PromiseAllRejects(promise)

-----------------------------------------------------------------------------
\* a row of the table is the row of a sub-row
IsSubRow(r) == startsWith(r[1].text, "  <corner> ")

\* the results main() awaited
Results == { Val(promise[i].value) : i \in 1..Len(promise) }

\* the result a parent row was made from
ResultOf(r) == CHOOSE usage \in Results : usage.provider = r[1].text

SubRowsOf(usage) ==
    IF IsDefined(usage.subRows) THEN Val(usage.subRows) ELSE <<>>

\* exactly the rows of subRows follow row j, in the order of subRows
FollowedBy(j, subRows) ==
    /\ j + Len(subRows) <= Len(table)
    /\ \A m \in 1..Len(subRows) :
           /\ table[j + m][1].text = "  <corner> " \o subRows[m].label
           /\ table[j + m][2].text = formatWindow(Some(subRows[m].window), now)
    /\ j + Len(subRows) + 1 <= Len(table)
           => ~IsSubRow(table[j + Len(subRows) + 1])

\* C23: sub-rows are rendered if and only if --show-antigravity was passed
\* and the rendered result has a non-empty subRows; they follow their
\* parent row at once, in subRows order; without the flag only the
\* aggregate rows are on the table.
C23_ExpandedOnRequest ==
    Rendered =>
        /\ Len(table) > 0 => ~IsSubRow(table[1])
        /\ \A j \in 1..Len(table) :
               ~IsSubRow(table[j]) =>
                   FollowedBy(j, IF argv.showAntigravityDetails
                                 THEN SubRowsOf(ResultOf(table[j]))
                                 ELSE <<>>)

\* the flag was passed and the sub-rows of Antigravity are on the table,
\* below its row and above the row of another provider
C23_Expanded ==
    /\ Rendered
    /\ argv.showAntigravityDetails
    /\ \E j \in 1..Len(table) :
           /\ table[j][1].text = "Antigravity"
           /\ j + 2 < Len(table)
           /\ IsSubRow(table[j + 1])
           /\ IsSubRow(table[j + 2])

-----------------------------------------------------------------------------
\* a call of a clock reader has returned
HasReturned == running = "" /\ op \in ClockReaders

-----------------------------------------------------------------------------
\* the Antigravity adapter returned an aggregate row with sub-rows
Aggregated ==
    /\ Settled(10)
    /\ promise[10].state = "fulfilled"
    /\ IsDefined(Result(10).primaryWindow)
    /\ IsDefined(Result(10).subRows)
    /\ Len(Val(Result(10).subRows)) > 0

Utilizations(subRows) ==
    { subRows[k].window.utilization : k \in 1..Len(subRows) }

IsLeast(x, S) == x \in S /\ \A y \in S : NumLeq(x, y)
IsGreatest(x, S) == x \in S /\ \A y \in S : NumLeq(y, x)

Summarizes(primaryWindow, subRows) ==
    /\ IsDefined(primaryWindow.minUtilization)
    /\ IsDefined(primaryWindow.maxUtilization)
    /\ IsLeast(Val(primaryWindow.minUtilization), Utilizations(subRows))
    /\ IsGreatest(Val(primaryWindow.maxUtilization), Utilizations(subRows))
    /\ NumLeq(Val(primaryWindow.minUtilization),
              Val(primaryWindow.maxUtilization))
    /\ NumEq(primaryWindow.utilization, Val(primaryWindow.maxUtilization))

\* C25: for every non-empty list of model quotas the aggregate row of
\* Antigravity carries as minUtilization the least and as maxUtilization the
\* greatest utilization of its sub-rows, minUtilization <= maxUtilization,
\* and its utilization is maxUtilization.
C25_RangeSummarizes ==
    Aggregated =>
        Summarizes(Val(Result(10).primaryWindow), Val(Result(10).subRows))

\* what does hold of the aggregate row: the greatest utilization, and a
\* minUtilization that is never above the least one
C25_UpperEndOnly ==
    Aggregated =>
        LET primaryWindow == Val(Result(10).primaryWindow)
            all == Utilizations(Val(Result(10).subRows))
        IN  /\ IsGreatest(Val(primaryWindow.maxUtilization), all)
            /\ NumEq(primaryWindow.utilization,
                     Val(primaryWindow.maxUtilization))
            /\ NumEq(Val(primaryWindow.minUtilization), Num(0))

-----------------------------------------------------------------------------
(* The endpoints of fetchQuota *)

\* the Antigravity adapter has sent its quota request and has returned
QuotaRequested ==
    /\ Settled(10)
    /\ IsDefined(upstream[10])
    /\ fetchesQuota(Val(auth), accountsFile, now)
    /\ refreshesToken(Val(auth), accountsFile, now)
           => ~refreshAntigravityToken(Val(upstream[10]).refresh).threw

Endpoints == Val(upstream[10]).endpoints

EndpointFailed(k) == fetchQuotaFromEndpoint(Endpoints[k]).threw

AllEndpointsFailed == \A k \in 1..Len(Endpoints) : EndpointFailed(k)

\* C26: fetchQuota requests the Cloud Code base URLs in the order of the
\* list, every endpoint before the last one requested has failed, no
\* endpoint is requested after one that succeeded, and the adapter reports
\* a fetch error only when all endpoints failed, with the message of the
\* last endpoint's error; otherwise its result is parsed from the answer
\* of the first endpoint that succeeded.
C26_EndpointsInOrder ==
    QuotaRequested =>
        LET urls == fetched(Endpoints, 1)
            n == Len(urls)
        IN  /\ n \in 1..Len(CLOUDCODE_BASE_URLS)
            /\ urls = SubSeq(CLOUDCODE_BASE_URLS, 1, n)
            /\ \A k \in 1..(n - 1) : EndpointFailed(k)
            /\ n < Len(CLOUDCODE_BASE_URLS) => ~EndpointFailed(n)
            /\ fetchQuota(Endpoints, 1).threw <=> AllEndpointsFailed
            /\ IF AllEndpointsFailed
               THEN Result(10)
                        = Failure("Antigravity",
                                  fetchQuotaFromEndpoint(Endpoints[n]).message)
               ELSE Result(10)
                        = parseResponse(
                              Val(fetchQuotaFromEndpoint(Endpoints[n]).value))

\* all three endpoints were requested and failed, the first and the last
\* in different ways, and the result carries the last one's message
C26_Witness ==
    /\ QuotaRequested
    /\ AllEndpointsFailed
    /\ fetched(Endpoints, 1) = CLOUDCODE_BASE_URLS
    /\ fetchQuotaFromEndpoint(Endpoints[1]).message
           # fetchQuotaFromEndpoint(Endpoints[3]).message
    /\ Result(10).error
           = Some(fetchQuotaFromEndpoint(Endpoints[3]).message)


-----------------------------------------------------------------------------
(* The order of the rows *)

\* the positions of the provider rows on the table
ProviderRows == { j \in 1..Len(table) : ~IsSubRow(table[j]) }

\* C27: the provider rows of the rendered table are in ascending order of
\* the provider display names, in whatever order the adapters' fetches
\* completed.
C27_RowsByName ==
    Rendered =>
        \A j, k \in ProviderRows :
            j < k => localeCompare(table[j][1].text, table[k][1].text) < 0

\* rows of three providers or more, the first one the row of Antigravity,
\* the last adapter of the providers array
C27_Sorted ==
    /\ Rendered
    /\ Cardinality(ProviderRows) >= 3
    /\ table[1][1].text = "Antigravity"


-----------------------------------------------------------------------------
(* The access token of the Antigravity adapter *)

Sent == requests(Val(auth), accountsFile, Val(upstream[10]), now)

IsRefresh(request) == request.to = TokenRequest("").to

Refreshes == { k \in 1..Len(Sent) : IsRefresh(Sent[k]) }

QuotaRequests == { k \in 1..Len(Sent) : ~IsRefresh(Sent[k]) }

ActiveAccount == getActiveAntigravityAccount(accountsFile)

Stored ==
    IF Val(auth) # null /\ IsDefined(Val(auth)["antigravity"])
    THEN Val(auth)["antigravity"] ELSE Some(OAuth("", "", 0))

\* the stored expiry is in the future and an access token is stored
Cached == Val(Stored).expires > now /\ Val(Stored).access # ""

RefreshFailed ==
    Refreshes # {} /\ refreshAntigravityToken(Val(upstream[10]).refresh).threw

\* C28: the Antigravity adapter sends a quota request only with an access
\* token in hand, and only after any refresh; with an account, it uses the
\* cached token and sends no refresh exactly when the stored expiry is in
\* the future and an access token is stored; it never refreshes twice and
\* refreshes with the refresh token of auth.json if there is one, else with
\* the active account's; when the refresh fails or no account is found the
\* result carries an error and no quota request was sent.
C28_TokenBeforeQuota ==
    (Settled(10) /\ IsDefined(upstream[10])) =>
        /\ \A k \in QuotaRequests :
               /\ Sent[k].token # ""
               /\ \A r \in Refreshes : r < k
               /\ Sent[k].token
                      = IF Refreshes = {} THEN Val(Stored).access
                        ELSE Val(refreshAntigravityToken(
                                     Val(upstream[10]).refresh).value)
        /\ (IsDefined(ActiveAccount) /\ Val(auth) # null) =>
               ((Refreshes = {} /\ QuotaRequests # {}) <=> Cached)
        /\ Cardinality(Refreshes) <= 1
        /\ \A r \in Refreshes :
               Sent[r].token = IF Val(Stored).refresh # ""
                               THEN Val(Stored).refresh
                               ELSE Val(ActiveAccount).refreshToken
        /\ (RefreshFailed \/ ~IsDefined(ActiveAccount)) =>
               /\ promise[10].state = "fulfilled"
               /\ Truthy(Result(10).error)
               /\ QuotaRequests = {}

\* the stored token has expired: one refresh with the refresh token of
\* auth.json, which differs from the account's, then the quota requests
\* with the refreshed token
C28_Witness ==
    /\ Settled(10)
    /\ IsDefined(upstream[10])
    /\ IsDefined(ActiveAccount)
    /\ Cardinality(Refreshes) = 1
    /\ Sent[1].token = Val(Stored).refresh
    /\ Sent[1].token # Val(ActiveAccount).refreshToken
    /\ QuotaRequests # {}
    /\ ~Cached


-----------------------------------------------------------------------------
(* The accounts of the Gemini adapter *)

GeminiAccounts == getAccounts(accountsFile)

\* what the turn of the loop for account k adds, given what the outside
\* answered that account
TurnOf(k) == geminiAccount(GeminiAccounts[k], Val(upstream[7])[k])

\* the accounts that yielded a usage window
Yielded == { k \in 1..Len(GeminiAccounts) : TurnOf(k).results # <<>> }

WindowOf(k) == TurnOf(k).results[1]

\* C29: the Gemini adapter goes through all accounts, so an account that
\* fails does not hide a later one; its result is an error exactly when
\* no account yielded a usage window, and otherwise its primaryWindow is
\* the window of an account that yielded one, none of which has less
\* remaining.
C29_EveryAccount ==
    (Settled(7) /\ IsDefined(upstream[7])) =>
        /\ promise[7].state = "fulfilled"
        /\ Truthy(Result(7).error) <=> Yielded = {}
        /\ Yielded # {} =>
               /\ IsDefined(Result(7).primaryWindow)
               /\ \E k \in Yielded : Val(Result(7).primaryWindow) = WindowOf(k)
               /\ \A k \in Yielded :
                      ~NumLess(WindowOf(k).remaining,
                               Val(Result(7).primaryWindow).remaining)

\* the first account failed and the second one yielded the window that
\* is returned
C29_Witness ==
    /\ Settled(7)
    /\ IsDefined(upstream[7])
    /\ Len(GeminiAccounts) = 2
    /\ TurnOf(1).errors # <<>>
    /\ Yielded = {2}
    /\ Result(7).primaryWindow = Some(WindowOf(2))


-----------------------------------------------------------------------------
(* The expected usage of the weekly calculator *)

\* (timeElapsed / totalWeekMs) * limit
ExpectedUsage ==
    NumMul(Frac(TimeElapsed(totalWeekMs), totalWeekMs), Val(window).limit)

UsedWithinLimit ==
    /\ NumLeq(Num(0), Val(window).used)
    /\ NumLeq(Val(window).used, Val(window).limit)

\* C30: when the weekly calculator has answered with a verdict, the
\* expected usage it compared against is between 0 and the limit, and for
\* a window with 0 <= used <= limit the deviation it reports is at most
\* 100 %, also when resetAt lies before the clock reading.
C30_ExpectedWithinLimit ==
    Classified(<<"calculatePace", totalWeekMs>>) =>
        /\ NumLeq(Num(0), ExpectedUsage)
        /\ NumLeq(ExpectedUsage, Val(window).limit)
        /\ (UsedWithinLimit
                /\ out \in {AheadText(Deviation(totalWeekMs)),
                            BehindText(Deviation(totalWeekMs))})
               => NumLeq(NumAbs(Deviation(totalWeekMs)), Num(100))

\* the same bound for the calls whose resetAt is not before the clock
\* reading
C30_FutureReset ==
    (Classified(<<"calculatePace", totalWeekMs>>)
         /\ Val(Val(window).resetAt) >= now) =>
        /\ NumLeq(Num(0), ExpectedUsage)
        /\ NumLeq(ExpectedUsage, Val(window).limit)
        /\ UsedWithinLimit
               => NumLeq(NumAbs(Deviation(totalWeekMs)), Num(100))

=============================================================================
